---- MODULE Spec2Model ----
(***************************************************************************)
(* Model of the music-catalog pipeline of backend/: per-file resolution    *)
(* and upload (main.py), the three lookup clients (services/), and the     *)
(* Catalog Builder (processors/catalog.py).                                *)
(*                                                                         *)
(* Strings are sequences of one-character strings, so that sanitising,     *)
(* splitting and comparing them is computed as the code computes it.       *)
(* Python's None is the one-element sequence <<"None">>, which no string   *)
(* of single characters equals.                                            *)
(***************************************************************************)
EXTENDS Integers, Sequences, FiniteSets, TLC

\* ------------------------------------------------------------------------
\* Strings
\* ------------------------------------------------------------------------

None == <<"None">>

\* Python truthiness of an optional string: None and "" are falsy.
Truthy(x) == x # None /\ x # <<>>

\* Python's `a or b` on optional strings.
Or(a, b) == IF Truthy(a) THEN a ELSE b

\* The characters of the model's strings in code-point order.
AsciiSeq ==
  << " ", "!", "&", "(", ")", "-", ".", "/",
     "0", "1", "2", "3", "4", "5", "6", "7", "8", "9",
     "A", "B", "C", "D", "E", "F", "G", "H", "I", "J", "K", "L", "M",
     "N", "O", "P", "Q", "R", "S", "T", "U", "V", "W", "X", "Y", "Z",
     "[", "]", "_",
     "a", "b", "c", "d", "e", "f", "g", "h", "i", "j", "k", "l", "m",
     "n", "o", "p", "q", "r", "s", "t", "u", "v", "w", "x", "y", "z" >>

Ord(c) == CHOOSE i \in 1..Len(AsciiSeq) : AsciiSeq[i] = c

Digits == {"0", "1", "2", "3", "4", "5", "6", "7", "8", "9"}
Upper == {"A", "B", "C", "D", "E", "F", "G", "H", "I", "J", "K", "L", "M",
          "N", "O", "P", "Q", "R", "S", "T", "U", "V", "W", "X", "Y", "Z"}
Lower == {"a", "b", "c", "d", "e", "f", "g", "h", "i", "j", "k", "l", "m",
          "n", "o", "p", "q", "r", "s", "t", "u", "v", "w", "x", "y", "z"}
Whitespace == {" "}

AllChars == {AsciiSeq[i] : i \in 1..Len(AsciiSeq)}

\* str.lower() on one character: a-z are A-Z shifted by a fixed offset.
LowerChar(c) == IF c \in Upper THEN AsciiSeq[Ord(c) + (Ord("a") - Ord("A"))] ELSE c

StrLower(s) == [i \in 1..Len(s) |-> LowerChar(s[i])]

\* Python's < on strings: lexicographic by code point.
RECURSIVE StrLess(_, _)
StrLess(a, b) ==
  IF b = <<>> THEN FALSE
  ELSE IF a = <<>> THEN TRUE
  ELSE IF Head(a) = Head(b) THEN StrLess(Tail(a), Tail(b))
  ELSE Ord(Head(a)) < Ord(Head(b))

\* b in a (substring)
Contains(a, b) ==
  \E i \in 1..(Len(a) - Len(b) + 1) : SubSeq(a, i, i + Len(b) - 1) = b

\* s.split("/"): the segments between slashes, empty ones kept.
RECURSIVE SplitSlash(_)
SplitSlash(s) ==
  IF \A i \in 1..Len(s) : s[i] # "/" THEN << s >>
  ELSE LET i == CHOOSE j \in 1..Len(s) :
                  s[j] = "/" /\ \A k \in 1..(j - 1) : s[k] # "/"
       IN << SubSeq(s, 1, i - 1) >> \o SplitSlash(SubSeq(s, i + 1, Len(s)))

\* s.strip(): leading and trailing whitespace removed.
RECURSIVE LStrip(_)
LStrip(s) == IF s # <<>> /\ Head(s) \in Whitespace THEN LStrip(Tail(s)) ELSE s

RECURSIVE RStrip(_)
RStrip(s) ==
  IF s # <<>> /\ s[Len(s)] \in Whitespace THEN RStrip(SubSeq(s, 1, Len(s) - 1)) ELSE s

Strip(s) == RStrip(LStrip(s))

\* ------------------------------------------------------------------------
\* Regular expressions (Python's re, backtracking order kept)
\* ------------------------------------------------------------------------
\* A pattern is a tuple: <<"set", S>> one character of S; <<"seq", r1, r2>>;
\* <<"alt", r1, r2>>; <<"star", r>> (greedy); <<"opt", r>> (greedy);
\* <<"eol">> the end of the string; <<"eps">> the empty pattern.

RSet(S) == << "set", S >>
RSeq(a, b) == << "seq", a, b >>
RAlt(a, b) == << "alt", a, b >>
RStar(a) == << "star", a >>
ROpt(a) == << "opt", a >>
REol == << "eol" >>
REps == << "eps" >>
RPlus(a) == RSeq(a, RStar(a))

\* A literal word under re.IGNORECASE.
RECURSIVE RWord(_)
RWord(w) ==
  IF w = <<>> THEN REps
  ELSE RSeq(RSet({c \in AllChars : LowerChar(c) = LowerChar(Head(w))}), RWord(Tail(w)))

RECURSIVE RSeqAll(_)
RSeqAll(rs) == IF rs = <<>> THEN REps ELSE RSeq(Head(rs), RSeqAll(Tail(rs)))

RECURSIVE RAltAll(_)
RAltAll(rs) == IF Len(rs) = 1 THEN rs[1] ELSE RAlt(Head(rs), RAltAll(Tail(rs)))

\* The positions at which a match of `re` starting at position i of s can end
\* (one past its last character), in the order the backtracking matcher tries
\* them: the first is the match re.sub takes.
RECURSIVE MatchEnds(_, _, _)
RECURSIVE MatchEndsFrom(_, _, _)
MatchEndsFrom(re, s, starts) ==
  IF starts = <<>> THEN <<>>
  ELSE MatchEnds(re, s, Head(starts)) \o MatchEndsFrom(re, s, Tail(starts))

MatchEnds(re, s, i) ==
  CASE re[1] = "set" -> IF i <= Len(s) /\ s[i] \in re[2] THEN << i + 1 >> ELSE <<>>
    [] re[1] = "eps" -> << i >>
    [] re[1] = "eol" -> IF i = Len(s) + 1 THEN << i >> ELSE <<>>
    [] re[1] = "seq" -> MatchEndsFrom(re[3], s, MatchEnds(re[2], s, i))
    [] re[1] = "alt" -> MatchEnds(re[2], s, i) \o MatchEnds(re[3], s, i)
    [] re[1] = "opt" -> MatchEnds(re[2], s, i) \o << i >>
    [] re[1] = "star" ->
         MatchEndsFrom(re, s, SelectSeq(MatchEnds(re[2], s, i), LAMBDA e : e > i))
           \o << i >>

\* re.sub(re, "", s): scanning left to right, every leftmost match is removed.
RECURSIVE SubEmptyFrom(_, _, _)
SubEmptyFrom(re, s, i) ==
  IF i > Len(s) THEN <<>>
  ELSE LET ends == MatchEnds(re, s, i)
       IN IF ends # <<>> /\ ends[1] > i
          THEN SubEmptyFrom(re, s, ends[1])
          ELSE << s[i] >> \o SubEmptyFrom(re, s, i + 1)

ReSubEmpty(re, s) == SubEmptyFrom(re, s, 1)

RECURSIVE ReSubAll(_, _)
ReSubAll(patterns, s) ==
  IF patterns = <<>> THEN s ELSE ReSubAll(Tail(patterns), ReSubEmpty(Head(patterns), s))

Ws == RStar(RSet(Whitespace))

\* ------------------------------------------------------------------------
\* utils/identifiers.py
\* ------------------------------------------------------------------------

\* re.sub(r"[\s_]+", "-", s): every maximal run of whitespace or underscores
\* becomes one dash.
RECURSIVE SubWsRuns(_)
SubWsRuns(s) ==
  IF s = <<>> THEN <<>>
  ELSE IF Head(s) \in Whitespace \cup {"_"}
       THEN LET rest == SubWsRuns(Tail(s))
            IN IF Tail(s) # <<>> /\ s[2] \in Whitespace \cup {"_"}
               THEN rest
               ELSE << "-" >> \o rest
       ELSE << Head(s) >> \o SubWsRuns(Tail(s))

\* re.sub(r"[^A-Za-z0-9-]", "", s)
KeepAlnumDash(s) == SelectSeq(s, LAMBDA c : c \in Upper \cup Lower \cup Digits \cup {"-"})

\* re.sub(r"-+", "-", s)
RECURSIVE CollapseDashes(_)
CollapseDashes(s) ==
  IF s = <<>> THEN <<>>
  ELSE IF Head(s) = "-" /\ Tail(s) # <<>> /\ s[2] = "-"
       THEN CollapseDashes(Tail(s))
       ELSE << Head(s) >> \o CollapseDashes(Tail(s))

\* s.strip("-")
RECURSIVE StripDashes(_)
StripDashes(s) ==
  IF s # <<>> /\ Head(s) = "-" THEN StripDashes(Tail(s))
  ELSE IF s # <<>> /\ s[Len(s)] = "-" THEN StripDashes(SubSeq(s, 1, Len(s) - 1))
  ELSE s

sanitize_s3_key(name, fallback) ==
  IF ~Truthy(name) THEN fallback
  ELSE LET sanitized == StripDashes(CollapseDashes(KeepAlnumDash(SubWsRuns(name))))
       IN IF sanitized = <<>> THEN fallback ELSE sanitized

FallbackUnknown == << "U", "n", "k", "n", "o", "w", "n" >>

\* normalize_artist_name: the part before the first "/", stripped.
normalize_artist_name(name) ==
  IF name = None THEN None
  ELSE IF name = <<>> THEN name
  ELSE IF \E i \in 1..Len(name) : name[i] = "/"
       THEN Strip(SplitSlash(name)[1])
       ELSE Strip(name)

\* ------------------------------------------------------------------------
\* services/theaudiodb.py: _normalize_album_name
\* ------------------------------------------------------------------------

\* \s*[\.\-]?\s*\(\s* ... \s*\)
Parenthesised(inner) ==
  RSeqAll(<< Ws, ROpt(RSet({".", "-"})), Ws, RSet({"("}), Ws, inner, Ws, RSet({")"}) >>)

WsPlus == RPlus(RSet(Whitespace))

EditionPatterns ==
  << Parenthesised(RSeqAll(<< RWord(<<"d","e","l","u","x","e">>), Ws,
        ROpt(RAlt(RWord(<<"v","e","r","s","i","o","n">>),
                  RWord(<<"e","d","i","t","i","o","n">>))) >>)),
     Parenthesised(RSeqAll(<< RWord(<<"s","p","e","c","i","a","l">>), WsPlus,
        RWord(<<"e","d","i","t","i","o","n">>) >>)),
     Parenthesised(RSeqAll(<< RWord(<<"e","x","p","a","n","d","e","d">>), WsPlus,
        RWord(<<"e","d","i","t","i","o","n">>) >>)),
     Parenthesised(RSeqAll(<< RWord(<<"r","e","m","a","s","t","e","r">>),
        ROpt(RWord(<<"e","d">>)) >>)),
     Parenthesised(RSeqAll(<< RWord(<<"b","o","n","u","s">>), WsPlus,
        RWord(<<"t","r","a","c","k">>), ROpt(RWord(<<"s">>)) >>)),
     RSeqAll(<< Ws, RSet({"-"}), Ws, RWord(<<"s","i","n","g","l","e">>), Ws, REol >>),
     RSeqAll(<< Ws, RSet({"-"}), Ws, RWord(<<"e","p">>), Ws, REol >>) >>

\* A faulty variant of normalize_album_name: no return of the original.
NormalizedOrEmpty(album_name) == Strip(ReSubAll(EditionPatterns, album_name))

normalize_album_name(album_name) ==
  LET normalized == Strip(ReSubAll(EditionPatterns, album_name))
  IN IF normalized # <<>> THEN normalized ELSE album_name

\* ------------------------------------------------------------------------
\* services/musicbrainz.py: _clean_album_name
\* ------------------------------------------------------------------------

EditionKeyword ==
  RAltAll(<< RWord(<<"d","e","l","u","x","e">>), RWord(<<"e","d","i","t","i","o","n">>),
             RWord(<<"v","e","r","s","i","o","n">>), RWord(<<"r","e","m","a","s","t","e","r">>),
             RWord(<<"b","o","n","u","s">>), RWord(<<"e","x","p","a","n","d","e","d">>) >>)

NotChar(c) == RStar(RSet(AllChars \ {c}))

CleanPatterns ==
  << RSeqAll(<< Ws, RStar(RSet({"."} \cup Whitespace)), RSet({"("}), NotChar(")"),
                EditionKeyword, NotChar(")"), RSet({")"}) >>),
     RSeqAll(<< Ws, RSet({"["}), NotChar("]"), EditionKeyword, NotChar("]"), RSet({"]"}) >>),
     RSeqAll(<< Ws, RStar(RSet({"."} \cup Whitespace)), RSet({"("}), NotChar(")"),
                RSet({")"}), Ws, REol >>),
     RSeqAll(<< Ws, RSet({"["}), NotChar("]"), RSet({"]"}), Ws, REol >>) >>

clean_album_name(album_name) == Strip(ReSubAll(CleanPatterns, album_name))

\* ------------------------------------------------------------------------
\* Values shared by the records below
\* ------------------------------------------------------------------------

\* An optional integer: <<>> is None, <<n>> is n.
NoneI == <<>>

\* An optional JSON object / dataclass instance: <<>> is None, <<r>> is r.
Nothing == <<>>

\* models/catalog.py: AlbumInfo(), ArtistInfo(), TrackInfo() with their defaults.
EmptyAlbumInfo ==
  [image_url |-> None, wiki |-> None, release_date |-> NoneI, genre |-> None,
   style |-> None, mood |-> None, theme |-> None, name |-> None]

EmptyArtistInfo ==
  [bio |-> None, image_url |-> None, genre |-> None, style |-> None, mood |-> None]

EmptyTrackInfo ==
  [name |-> None, album |-> None, genre |-> None, style |-> None, mood |-> None,
   theme |-> None]

\* services/musicbrainz.py: ReleaseDetails(), ArtistDetails() with their defaults.
EmptyReleaseDetails ==
  [mbid |-> None, title |-> None, release_date |-> NoneI, release_type |-> None,
   country |-> None, label |-> None, barcode |-> None, media_format |-> None]

EmptyArtistDetails ==
  [mbid |-> None, name |-> None, artist_type |-> None, area |-> None,
   begin_date |-> None, end_date |-> None, disambiguation |-> None]

\* utils/cache.py: a ThreadSafeCache is a function from its keys to its values.
EmptyCache == << >>

CacheHas(c, k) == k \in DOMAIN c

CacheSet(c, k, v) == [x \in (DOMAIN c) \cup {k} |-> IF x = k THEN v ELSE c[x]]

\* ------------------------------------------------------------------------
\* Bounds
\* ------------------------------------------------------------------------

\* The number of files of one scan.
MaxFiles == 2

\* The scans before which storage may hold the catalog of an earlier run are
\* those of at most this many files.
MaxFilesOverCatalog == 1

\* The number of faults (a request failing after its retries, a malformed
\* payload, a failed download, upload or conversion, a raising task) in one run.
MaxFaults == 1

\* ------------------------------------------------------------------------
\* The remote providers' data (the environment the clients query)
\* ------------------------------------------------------------------------

sHo == << "H", "o" >>
sMi == << "M", "i" >>
sH == << "H" >>
sHDeluxe == << "H", " ", "(", "D", "e", "l", "u", "x", "e", ")" >>
sRSingle == << "R", " ", "-", " ", "S", "i", "n", "g", "l", "e" >>
sRSingleLower == << "r", " ", "-", " ", "s", "i", "n", "g", "l", "e" >>
sXxLower == << "x", "x" >>
sXx == << "X", "x" >>
sHoMi == << "H", "o", "M", "i" >>
sHoSlashMi == << "H", "o", "/", "M", "i" >>
sHoAndMi == << "H", "o", " ", "&", " ", "M", "i" >>

\* TheAudioDB: artists (search.php), albums (searchalbum.php, album-mb.php,
\* album.php) and tracks (searchtrack.php). An artist is also found under
\* its alternate name.
TadbArtists ==
  << [idArtist |-> << "1" >>, strArtist |-> sHo, strArtistAlternate |-> sHoMi,
      strBiographyEN |-> << "b" >>,
      strGenre |-> << "r" >>, strStyle |-> None, strMood |-> None,
      strArtistThumb |-> << "t" >>, strArtistFanart |-> None,
      strArtistFanart2 |-> None] >>

TadbAlbums ==
  << [idArtist |-> << "1" >>, strArtist |-> sHo, strAlbum |-> sH,
      strMusicBrainzID |-> << "m", "1" >>, strDescriptionEN |-> << "d" >>,
      strDescription |-> None, intYearReleased |-> << "2", "0", "1", "3" >>,
      strGenre |-> << "g" >>, strStyle |-> << "s" >>, strMood |-> None,
      strTheme |-> None, strAlbumThumb |-> << "i" >>, strAlbumThumbHQ |-> None],
     [idArtist |-> << "1" >>, strArtist |-> sHoAndMi, strAlbum |-> sRSingle,
      strMusicBrainzID |-> None, strDescriptionEN |-> << "e" >>,
      strDescription |-> None, intYearReleased |-> None,
      strGenre |-> None, strStyle |-> None, strMood |-> None,
      strTheme |-> None, strAlbumThumb |-> << "n" >>, strAlbumThumbHQ |-> None] >>

TadbTracks ==
  << [strArtist |-> sHo, strTrack |-> << "c" >>, strAlbum |-> sH,
      strGenre |-> << "g" >>, strStyle |-> None, strMood |-> None,
      strTheme |-> None] >>

\* MusicBrainz: artists and releases.
MbArtists ==
  << [id |-> << "a", "1" >>, name |-> sHo, type |-> << "P" >>,
      area |-> << "I", "E" >>, begin |-> << "1", "9", "9", "0" >>, end |-> None,
      disambiguation |-> None] >>

MbReleases ==
  << [id |-> << "m", "1" >>, title |-> sH, artist |-> sHo,
      date |-> << "2", "0", "1", "4", "-", "0", "9" >>, country |-> << "I", "E" >>,
      barcode |-> None, primary_type |-> << "A" >>, label |-> << "L" >>,
      format |-> << "C", "D" >>],
     [id |-> << "m", "2" >>, title |-> sXx, artist |-> sHo,
      date |-> None, country |-> None, barcode |-> None, primary_type |-> None,
      label |-> None, format |-> None] >>

\* Last.fm: albums (album.getinfo), with their images by size.
LfmAlbums ==
  << [artist |-> sMi, name |-> sRSingle, summary |-> << "w" >>,
      image |-> << [size |-> << "s", "m", "a", "l", "l" >>, text |-> << "j" >>],
                   [size |-> << "l", "a", "r", "g", "e" >>, text |-> << "k" >>],
                   [size |-> << "m", "e", "g", "a" >>, text |-> << >>] >>] >>

\* The providers match names without regard to case.
SameName(a, b) == Truthy(a) /\ Truthy(b) /\ StrLower(a) = StrLower(b)

TadbSearchArtist(name) ==
  SelectSeq(TadbArtists, LAMBDA a : \/ SameName(a.strArtist, name)
                                    \/ SameName(a.strArtistAlternate, name))

TadbSearchAlbum(artist, album) ==
  SelectSeq(TadbAlbums, LAMBDA a : SameName(a.strArtist, artist) /\ SameName(a.strAlbum, album))

TadbAlbumByMbid(mbid) == SelectSeq(TadbAlbums, LAMBDA a : a.strMusicBrainzID = mbid)

TadbAlbumsOfArtist(artist_id) == SelectSeq(TadbAlbums, LAMBDA a : a.idArtist = artist_id)

TadbSearchTrack(artist, title) ==
  SelectSeq(TadbTracks, LAMBDA t : SameName(t.strArtist, artist) /\ SameName(t.strTrack, title))

MbSearchArtist(name) == SelectSeq(MbArtists, LAMBDA a : SameName(a.name, name))

MbArtistById(mbid) == SelectSeq(MbArtists, LAMBDA a : a.id = mbid)

MbSearchRelease(artist, album) ==
  SelectSeq(MbReleases, LAMBDA r : SameName(r.artist, artist) /\ SameName(r.title, album))

MbReleaseById(mbid) == SelectSeq(MbReleases, LAMBDA r : r.id = mbid)

LfmGetAlbum(artist, album) ==
  SelectSeq(LfmAlbums, LAMBDA a : SameName(a.artist, artist) /\ SameName(a.name, album))

\* ------------------------------------------------------------------------
\* State
\* ------------------------------------------------------------------------

VARIABLES
  dry_run,      \* run(dry_run)
  mb_enabled,   \* config.musicbrainz.enabled: MusicUploader holds a MusicBrainzService
  lfm_enabled,  \* config.lastfm.is_configured: MusicUploader holds a LastFMService
  files,        \* audio_files: the scanned files, in scan order
  task,         \* per file: the position of its worker task
  local,        \* per file: the task's local variables
  svc,          \* the clients' caches, the object storage, the faults so far
  art_cache,    \* MusicUploader._embedded_artwork_cache
  tracks,       \* run's `tracks`: the results collected so far
  pc,           \* the position of run / CatalogBuilder.build
  build,        \* build's local variables
  catalog,      \* the Catalog build returned
  http,         \* one client's request path: clock, rate-limit gate, callers
  san,          \* an application of sanitize_s3_key: its input and results
  fn,           \* an application of a pure function: its input and result
  conv,         \* the conversions: the converted directory, the calls
  goc,          \* one key of a ThreadSafeCache and the get_or_compute calls for it
  again         \* the run is one of two from the same start: which, and the first's catalog

\* The variables of a run.
run_vars ==
  << dry_run, mb_enabled, lfm_enabled, files, task, local, svc, art_cache,
     tracks, pc, build, catalog >>

vars == << run_vars, http, san, fn, conv, goc, again >>

\* ------------------------------------------------------------------------
\* utils/identifiers.py: extract_year
\* ------------------------------------------------------------------------

\* A date value is None, an integer or a string.
DateNone == [t |-> "none", s |-> << >>, i |-> 0]
DateInt(n) == [t |-> "int", s |-> << >>, i |-> n]
DateStr(x) == [t |-> "str", s |-> x, i |-> 0]
DateOf(x) == IF x = None THEN DateNone ELSE DateStr(x)

DigitVal(c) == Ord(c) - Ord("0")

\* A faulty variant of extract_year: the string is matched unstripped.
YearUnstripped(date_value) ==
  IF date_value.t = "none" THEN NoneI
  ELSE IF date_value.t = "int" THEN << date_value.i >>
  ELSE LET date_str == date_value.s
       IN IF Len(date_str) >= 4 /\ \A k \in 1..4 : date_str[k] \in Digits
          THEN << 1000 * DigitVal(date_str[1]) + 100 * DigitVal(date_str[2])
                  + 10 * DigitVal(date_str[3]) + DigitVal(date_str[4]) >>
          ELSE NoneI

extract_year(date_value) ==
  IF date_value.t = "none" THEN NoneI
  ELSE IF date_value.t = "int" THEN << date_value.i >>
  ELSE LET date_str == Strip(date_value.s)
       IN IF date_str = << >> THEN NoneI
          ELSE IF Len(date_str) >= 4 /\ \A k \in 1..4 : date_str[k] \in Digits
               THEN << 1000 * DigitVal(date_str[1]) + 100 * DigitVal(date_str[2])
                       + 10 * DigitVal(date_str[3]) + DigitVal(date_str[4]) >>
               ELSE NoneI

\* ------------------------------------------------------------------------
\* services/storage.py
\* ------------------------------------------------------------------------

Slash == << "/" >>
sUnknownArtist ==
  << "U", "n", "k", "n", "o", "w", "n", " ", "A", "r", "t", "i", "s", "t" >>
sUnknownAlbum ==
  << "U", "n", "k", "n", "o", "w", "n", " ", "A", "l", "b", "u", "m" >>
sUnknownTrack ==
  << "U", "n", "k", "n", "o", "w", "n", " ", "T", "r", "a", "c", "k" >>
sCoverJpg == << "c", "o", "v", "e", "r", ".", "j", "p", "g" >>
sArtistJpg == << "a", "r", "t", "i", "s", "t", ".", "j", "p", "g" >>
sEmbedded == << "e", "m", "b", "e", "d", "d", "e", "d", "." >>
sPng == << "p", "n", "g" >>
sJpg == << "j", "p", "g" >>

\* The CDN prefix of every public URL.
UrlPrefix == << "&" >>

get_public_url(s3_key) == UrlPrefix \o s3_key

file_exists(st, s3_key) ==
  IF st.storage.cache_set THEN s3_key \in st.storage.existing_keys_cache
  ELSE s3_key \in st.storage.bucket

\* An object put under s3_key, then _add_to_cache(s3_key).
Stored(st, s3_key) ==
  [st EXCEPT !.storage.bucket = @ \cup {s3_key},
             !.storage.existing_keys_cache =
                IF st.storage.cache_set THEN @ \cup {s3_key} ELSE @]

CanFault(st) == st.faults < MaxFaults

Fault(st) == [st EXCEPT !.faults = @ + 1]

\* The existence check, download and put shared by the image uploads: the
\* URL, or None when the image is refused or the download or the put fails.
ImageUpload(st, s3_key) ==
  IF file_exists(st, s3_key) THEN {[ret |-> get_public_url(s3_key), st |-> st]}
  ELSE {[ret |-> get_public_url(s3_key), st |-> Stored(st, s3_key)]}
         \cup (IF CanFault(st) THEN {[ret |-> None, st |-> Fault(st)]} ELSE {})

download_and_upload_image(st, image_url, artist, album) ==
  IF ~Truthy(image_url) THEN {[ret |-> None, st |-> st]}
  ELSE ImageUpload(st, sanitize_s3_key(artist, sUnknownArtist) \o Slash
                         \o sanitize_s3_key(album, sUnknownAlbum) \o Slash \o sCoverJpg)

download_and_upload_artist_image(st, image_url, artist) ==
  IF ~Truthy(image_url) THEN {[ret |-> None, st |-> st]}
  ELSE ImageUpload(st, sanitize_s3_key(artist, sUnknownArtist) \o Slash \o sArtistJpg)

upload_bytes(st, s3_key) ==
  IF file_exists(st, s3_key) THEN {[ret |-> get_public_url(s3_key), st |-> st]}
  ELSE {[ret |-> get_public_url(s3_key), st |-> Stored(st, s3_key)]}
         \cup (IF CanFault(st) THEN {[ret |-> None, st |-> Fault(st)]} ELSE {})

upload_artwork_bytes(st, mime_type, artist, album) ==
  upload_bytes(st, sanitize_s3_key(artist, sUnknownArtist) \o Slash
                     \o sanitize_s3_key(album, sUnknownAlbum) \o Slash \o sEmbedded
                     \o (IF Contains(mime_type, sPng) THEN sPng ELSE sJpg))

\* upload_file: TRUE once the object is stored, FALSE after the last retry failed.
upload_file(st, s3_key) ==
  {[ret |-> TRUE, st |-> Stored(st, s3_key)]}
    \cup (IF CanFault(st) THEN {[ret |-> FALSE, st |-> Fault(st)]} ELSE {})

sCatalogKey == << "m", "u", "s", "i", "c", "_", "c", "a", "t", "a", "l", "o", "g",
                  ".", "j", "s", "o", "n" >>

\* delete_object of the old catalog; a ClientError is passed over.
DeleteOld(st) ==
  {[st EXCEPT !.storage.bucket = @ \ {sCatalogKey}]}
    \cup (IF CanFault(st) THEN {Fault(st)} ELSE {})

\* upload_catalog: the old object is deleted, then the file is put; the URL,
\* or None when the put fails.
upload_catalog(st) ==
  UNION { {[ret |-> get_public_url(sCatalogKey),
            st |-> [d EXCEPT !.storage.bucket = @ \cup {sCatalogKey}]]}
            \cup (IF CanFault(d) THEN {[ret |-> None, st |-> Fault(d)]} ELSE {})
          : d \in DeleteOld(st) }

\* ------------------------------------------------------------------------
\* _make_request (theaudiodb.py, musicbrainz.py, lastfm.py)
\* ------------------------------------------------------------------------

\* What a request returns: the provider's JSON object, None after the last
\* retry failed, or JSON that is not an object (a non-empty array).
Ok(items) == [kind |-> "ok", items |-> items]
NoResponse == [kind |-> "none", items |-> << >>]
Malformed == [kind |-> "bad", items |-> << >>]

make_request(st, items) ==
  {[data |-> Ok(items), st |-> st]}
    \cup (IF CanFault(st)
          THEN {[data |-> NoResponse, st |-> Fault(st)],
                [data |-> Malformed, st |-> Fault(st)]}
          ELSE {})

\* ------------------------------------------------------------------------
\* services/musicbrainz.py
\* ------------------------------------------------------------------------

\* The outcomes of a MusicBrainz call: it returns ret, or an exception leaves it.
MbReturn(ret, st) == [ret |-> ret, exc |-> FALSE, st |-> st]
MbRaise(ret, st) == [ret |-> ret, exc |-> TRUE, st |-> st]

do_artist_search(st, artist_name) ==
  { IF r.data.kind = "bad" THEN MbRaise(None, r.st)
    ELSE IF r.data.kind = "none" \/ r.data.items = << >> THEN MbReturn(None, r.st)
    ELSE LET artists == r.data.items
             exact == SelectSeq(artists,
                        LAMBDA a : StrLower(a.name) = StrLower(artist_name))
         IN MbReturn(IF exact # << >> THEN exact[1].id ELSE artists[1].id, r.st)
    : r \in make_request(st, MbSearchArtist(artist_name)) }

search_artist(st, artist_name) ==
  UNION { IF o.exc \/ Truthy(o.ret) THEN {o}
          ELSE IF \E k \in 1..Len(artist_name) : artist_name[k] \in {".", "&", "!"}
               THEN do_artist_search(o.st, artist_name)
               ELSE {MbReturn(None, o.st)}
          : o \in do_artist_search(st, artist_name) }

get_artist_mbid(st, artist_name) ==
  IF ~mb_enabled THEN {MbReturn(None, st)}
  ELSE IF CacheHas(st.mb.artist_cache, artist_name)
  THEN {MbReturn(IF st.mb.artist_cache[artist_name] # << >>
                 THEN st.mb.artist_cache[artist_name] ELSE None, st)}
  ELSE { IF o.exc THEN o
         ELSE MbReturn(o.ret, [o.st EXCEPT !.mb.artist_cache =
                                 CacheSet(@, artist_name, Or(o.ret, << >>))])
         : o \in search_artist(st, artist_name) }

fetch_artist_details(st, mbid) ==
  { IF r.data.kind = "bad" THEN MbRaise(EmptyArtistDetails, r.st)
    ELSE IF r.data.kind = "none" \/ r.data.items = << >>
    THEN MbReturn([EmptyArtistDetails EXCEPT !.mbid = mbid], r.st)
    ELSE LET data == r.data.items[1]
         IN MbReturn([mbid |-> mbid, name |-> data.name, artist_type |-> data.type,
                      area |-> data.area, begin_date |-> data.begin,
                      end_date |-> data.end, disambiguation |-> data.disambiguation],
                     r.st)
    : r \in make_request(st, MbArtistById(mbid)) }

get_artist_details(st, artist_name) ==
  IF ~mb_enabled THEN {MbReturn(EmptyArtistDetails, st)}
  ELSE IF CacheHas(st.mb.artist_details_cache, artist_name)
  THEN {MbReturn(st.mb.artist_details_cache[artist_name], st)}
  ELSE UNION {
    IF o.exc THEN {MbRaise(EmptyArtistDetails, o.st)}
    ELSE IF ~Truthy(o.ret)
    THEN {MbReturn(EmptyArtistDetails,
                   [o.st EXCEPT !.mb.artist_details_cache =
                      CacheSet(@, artist_name, EmptyArtistDetails)])}
    ELSE { IF d.exc THEN d
           ELSE MbReturn(d.ret, [d.st EXCEPT !.mb.artist_details_cache =
                                   CacheSet(@, artist_name, d.ret)])
           : d \in fetch_artist_details(o.st, o.ret) }
    : o \in get_artist_mbid(st, artist_name) }

\* _do_release_search returns the pair (mbid, title).
do_release_search(st, artist_name, album_name) ==
  { IF r.data.kind = "bad" THEN MbRaise(<< None, None >>, r.st)
    ELSE IF r.data.kind = "none" \/ r.data.items = << >>
    THEN MbReturn(<< None, None >>, r.st)
    ELSE MbReturn(<< r.data.items[1].id, r.data.items[1].title >>, r.st)
    : r \in make_request(st, MbSearchRelease(artist_name, album_name)) }

fetch_release_details(st, mbid, title) ==
  { IF r.data.kind = "bad" THEN MbRaise(EmptyReleaseDetails, r.st)
    ELSE IF r.data.kind = "none" \/ r.data.items = << >>
    THEN MbReturn([EmptyReleaseDetails EXCEPT !.mbid = mbid, !.title = title], r.st)
    ELSE LET data == r.data.items[1]
         IN MbReturn([mbid |-> mbid, title |-> Or(title, data.title),
                      release_date |-> extract_year(DateOf(data.date)),
                      release_type |-> data.primary_type, country |-> data.country,
                      label |-> data.label, barcode |-> data.barcode,
                      media_format |-> data.format], r.st)
    : r \in make_request(st, MbReleaseById(mbid)) }

search_release(st, artist_name, album_name) ==
  LET cleaned_album == clean_album_name(album_name)
      found == UNION { IF o.exc \/ Truthy(o.ret[1]) \/ cleaned_album = album_name
                       THEN {o}
                       ELSE do_release_search(o.st, artist_name, cleaned_album)
                       : o \in do_release_search(st, artist_name, album_name) }
  IN UNION { IF o.exc THEN {MbRaise(EmptyReleaseDetails, o.st)}
             ELSE IF ~Truthy(o.ret[1]) THEN {MbReturn(EmptyReleaseDetails, o.st)}
             ELSE fetch_release_details(o.st, o.ret[1], o.ret[2])
             : o \in found }

get_release_details(st, artist_name, album_name) ==
  LET cache_key == << artist_name, album_name >>
  IN IF ~mb_enabled THEN {MbReturn(EmptyReleaseDetails, st)}
     ELSE IF CacheHas(st.mb.release_cache, cache_key)
     THEN {MbReturn(st.mb.release_cache[cache_key], st)}
     ELSE { IF o.exc THEN o
            ELSE MbReturn(o.ret, [o.st EXCEPT !.mb.release_cache =
                                    CacheSet(@, cache_key, o.ret)])
            : o \in search_release(st, artist_name, album_name) }

\* ------------------------------------------------------------------------
\* services/theaudiodb.py
\* ------------------------------------------------------------------------

\* str.replace(c, r) for a one-character c.
ReplaceChar(s, c, r) ==
  LET F[k \in 0..Len(s)] ==
        IF k = 0 THEN << >>
        ELSE F[k - 1] \o (IF s[k] = c THEN r ELSE << s[k] >>)
  IN F[Len(s)]

\* list(dict.fromkeys(seq)): the first occurrence of every element, in order.
Dedupe(seq) ==
  LET F[k \in 0..Len(seq)] ==
        IF k = 0 THEN << >>
        ELSE IF \E j \in 1..(k - 1) : seq[j] = seq[k] THEN F[k - 1]
        ELSE Append(F[k - 1], seq[k])
  IN F[Len(seq)]

\* _names_match: the names are equal once lower-cased and stripped of what
\* is not alphanumeric, or one contains the other and both have 3 characters
\* at least.
names_match(search_name, result_name) ==
  LET normalize(name) ==
        StrLower(SelectSeq(name, LAMBDA c : c \in Digits \cup Upper \cup Lower))
      norm_search == normalize(search_name)
      norm_result == normalize(result_name)
  IN \/ norm_search = norm_result
     \/ /\ Len(norm_search) >= 3 /\ Len(norm_result) >= 3
        /\ Contains(norm_result, norm_search) \/ Contains(norm_search, norm_result)

get_name_variations(name) ==
  LET no_periods == ReplaceChar(name, ".", << >>)
      spaced == Strip(ReplaceChar(name, ".", << ".", " " >>))
      no_slashes == ReplaceChar(name, "/", << >>)
      slash_to_space == ReplaceChar(name, "/", << " " >>)
  IN Dedupe(<< name >>
            \o (IF no_periods # name /\ Strip(no_periods) # << >>
                THEN << no_periods >> ELSE << >>)
            \o (IF spaced # name THEN << spaced >> ELSE << >>)
            \o (IF no_slashes # name /\ Strip(no_slashes) # << >>
                THEN << no_slashes >> ELSE << >>)
            \o (IF slash_to_space # name THEN << slash_to_space >> ELSE << >>))

\* The search of fetch_artist_info over the name variations from the k-th on:
\* the artist found (or Nothing), or an exception.
RECURSIVE SearchVariations(_, _, _)
SearchVariations(st, variations, k) ==
  IF k > Len(variations) THEN {[artist_data |-> Nothing, exc |-> FALSE, st |-> st]}
  ELSE UNION {
    IF r.data.kind = "bad" THEN {[artist_data |-> Nothing, exc |-> TRUE, st |-> r.st]}
    ELSE IF r.data.kind = "ok" /\ r.data.items # << >>
    THEN {[artist_data |-> << r.data.items[1] >>, exc |-> FALSE, st |-> r.st]}
    ELSE SearchVariations(r.st, variations, k + 1)
    : r \in make_request(st, TadbSearchArtist(variations[k])) }

fetch_artist_info(st, artist_name) ==
  IF CacheHas(st.tadb.artist_cache, artist_name)
  THEN {[ret |-> st.tadb.artist_cache[artist_name], st |-> st]}
  ELSE UNION {
    IF c.exc \/ c.artist_data = Nothing
    THEN {[ret |-> EmptyArtistInfo,
           st |-> [c.st EXCEPT !.tadb.artist_cache =
                     CacheSet(@, artist_name, EmptyArtistInfo)]]}
    ELSE LET artist_data == c.artist_data[1]
             canonical_name == artist_data.strArtist
             artist_id == artist_data.idArtist
             st1 == IF Truthy(artist_id)
                    THEN [c.st EXCEPT !.tadb.artist_id_cache =
                            CacheSet(@, artist_name, << canonical_name, artist_id >>)]
                    ELSE c.st
             bio == artist_data.strBiographyEN
             image_url == Or(artist_data.strArtistThumb,
                             Or(artist_data.strArtistFanart,
                                artist_data.strArtistFanart2))
             result == [bio |-> IF Truthy(bio) THEN Strip(bio) ELSE None,
                        image_url |-> None,
                        genre |-> artist_data.strGenre,
                        style |-> artist_data.strStyle,
                        mood |-> artist_data.strMood]
         IN { LET res == [result EXCEPT !.image_url =
                            IF Truthy(u.ret) THEN u.ret ELSE None]
              IN [ret |-> res,
                  st |-> [u.st EXCEPT !.tadb.artist_cache =
                            CacheSet(@, artist_name, res)]]
              : u \in download_and_upload_artist_image(st1, image_url, artist_name) }
    : c \in SearchVariations(st, get_name_variations(artist_name), 1) }

\* The sources of fetch_album_info, in the order of its code.
Sources == << "mbid", "normalized", "name", "artist_id" >>

\* The position of fetch_album_info between its lookups; asked lists the
\* sources requested so far and mbid tells whether MusicBrainz gave a release ID.
AlbumSearch(st) ==
  [album_data |-> Nothing, exc |-> FALSE, st |-> st, musicbrainz_title |-> None,
   asked |-> << >>, mbid |-> FALSE, late |-> FALSE]

\* A request to a source is about to leave; late tells that an album had
\* been found, or an exception raised, before some request left.
Asking(c, source) ==
  [c EXCEPT !.asked = Append(@, source),
            !.late = @ \/ c.exc \/ c.album_data # Nothing]

\* A faulty variant of Settled: a found album does not end the lookups.
NeverSettled(c) == c.exc

\* `if not album_data` fails, or the exception has left the try block.
Settled(c) == c.exc \/ c.album_data # Nothing

\* One album request: data["album"][0] when the answer has albums.
AlbumRequest(c, items) ==
  { IF r.data.kind = "bad" THEN [c EXCEPT !.exc = TRUE, !.st = r.st]
    ELSE IF r.data.kind = "ok" /\ r.data.items # << >>
    THEN [c EXCEPT !.album_data = << r.data.items[1] >>, !.st = r.st]
    ELSE [c EXCEPT !.st = r.st]
    : r \in make_request(c.st, items) }

\* album-mb.php by the release's MBID.
AlbumByMbid(c, artist_name, album_name) ==
  IF ~mb_enabled THEN {c}
  ELSE UNION {
    IF o.exc THEN {[c EXCEPT !.exc = TRUE, !.st = o.st]}
    ELSE IF Truthy(o.ret.mbid)
    THEN { IF d.exc THEN d
           ELSE [d EXCEPT !.musicbrainz_title =
                   IF Truthy(o.ret.title) THEN o.ret.title ELSE None]
           : d \in AlbumRequest(Asking([c EXCEPT !.st = o.st, !.mbid = TRUE], "mbid"),
                                TadbAlbumByMbid(o.ret.mbid)) }
    ELSE {[c EXCEPT !.st = o.st]}
    : o \in get_release_details(c.st, artist_name, album_name) }

\* album.php by the artist's id, matched on the lower-cased album name.
AlbumOfArtist(c, artist_id, album_name) ==
  { IF r.data.kind = "bad" THEN [c EXCEPT !.exc = TRUE, !.st = r.st]
    ELSE [c EXCEPT !.st = r.st,
                   !.album_data =
                     LET m == SelectSeq(r.data.items,
                                LAMBDA a : StrLower(a.strAlbum) = StrLower(album_name))
                     IN IF m = << >> THEN Nothing ELSE << m[1] >>]
    : r \in make_request(c.st, TadbAlbumsOfArtist(artist_id)) }

\* What a lookup leaves for the record: the sources requested, whether an
\* album was found, and which sources its inputs made eligible.
NoLookup ==
  [asked |-> << >>, found |-> FALSE, exc |-> FALSE, late |-> FALSE,
   mbid |-> FALSE, normalized |-> FALSE, artist_id |-> FALSE, done |-> FALSE]

LookupOf(c, normalized, artist_id) ==
  [asked |-> c.asked, found |-> c.album_data # Nothing, exc |-> c.exc,
   late |-> c.late, mbid |-> c.mbid, normalized |-> normalized, artist_id |-> artist_id,
   done |-> TRUE]

\* The album's fields and cover, once the lookups are over.
AlbumResult(c, artist_name, album_name) ==
  IF c.exc \/ c.album_data = Nothing THEN {[ret |-> EmptyAlbumInfo, st |-> c.st]}
  ELSE LET album_data == c.album_data[1]
           name == Or(album_data.strAlbum, c.musicbrainz_title)
           wiki == Or(album_data.strDescriptionEN, album_data.strDescription)
           year == album_data.intYearReleased
           image_url == Or(album_data.strAlbumThumb, album_data.strAlbumThumbHQ)
           result == [image_url |-> None,
                      wiki |-> IF Truthy(wiki) THEN Strip(wiki) ELSE None,
                      release_date |-> IF Truthy(year) THEN extract_year(DateStr(year))
                                       ELSE NoneI,
                      genre |-> album_data.strGenre, style |-> album_data.strStyle,
                      mood |-> album_data.strMood, theme |-> album_data.strTheme,
                      name |-> name]
       IN { [ret |-> [result EXCEPT !.image_url = IF Truthy(u.ret) THEN u.ret ELSE None],
             st |-> u.st]
            : u \in download_and_upload_image(c.st, image_url, artist_name,
                                              Or(name, album_name)) }

\* fetch_album_info from its cache miss up to, not including, the cache's set.
lookup_album_info(st, artist_name, album_name) ==
  LET cached_artist == IF CacheHas(st.tadb.artist_id_cache, artist_name)
                       THEN st.tadb.artist_id_cache[artist_name] ELSE << >>
      canonical_name == IF cached_artist # << >> THEN cached_artist[1] ELSE artist_name
      artist_id == IF cached_artist # << >> THEN cached_artist[2] ELSE None
      normalized_album == normalize_album_name(album_name)
      byMbid == AlbumByMbid(AlbumSearch(st), artist_name, album_name)
      byNormalized ==
        UNION { IF Settled(c) \/ normalized_album = album_name
                THEN {c}
                ELSE AlbumRequest(Asking(c, "normalized"),
                                  TadbSearchAlbum(canonical_name, normalized_album))
                : c \in byMbid }
      byName ==
        UNION { IF Settled(c) THEN {c}
                ELSE AlbumRequest(Asking(c, "name"),
                                  TadbSearchAlbum(canonical_name, album_name))
                : c \in byNormalized }
      byArtistId ==
        UNION { IF Settled(c) \/ ~Truthy(artist_id) THEN {c}
                ELSE AlbumOfArtist(Asking(c, "artist_id"), artist_id, album_name)
                : c \in byName }
  IN UNION { { [ret |-> r.ret, st |-> r.st,
                lookup |-> LookupOf(c, normalized_album # album_name,
                                    Truthy(artist_id))]
               : r \in AlbumResult(c, artist_name, album_name) }
             : c \in byArtistId }

fetch_album_info(st, artist_name, album_name) ==
  LET cache_key == << artist_name, album_name >>
  IN IF CacheHas(st.tadb.album_cache, cache_key)
     THEN {[ret |-> st.tadb.album_cache[cache_key], st |-> st, lookup |-> NoLookup]}
     ELSE { [ret |-> o.ret,
             st |-> [o.st EXCEPT !.tadb.album_cache = CacheSet(@, cache_key, o.ret)],
             lookup |-> o.lookup]
            : o \in lookup_album_info(st, artist_name, album_name) }

fetch_track_info(st, artist_name, track_title) ==
  LET cache_key == << artist_name, track_title >>
  IN IF CacheHas(st.tadb.track_cache, cache_key)
     THEN {[ret |-> st.tadb.track_cache[cache_key], st |-> st]}
     ELSE { LET result ==
                  IF r.data.kind = "ok" /\ r.data.items # << >>
                  THEN LET track_data == r.data.items[1]
                       IN [name |-> track_data.strTrack, album |-> track_data.strAlbum,
                           genre |-> track_data.strGenre, style |-> track_data.strStyle,
                           mood |-> track_data.strMood, theme |-> track_data.strTheme]
                  ELSE EmptyTrackInfo
            IN [ret |-> result,
                st |-> [r.st EXCEPT !.tadb.track_cache = CacheSet(@, cache_key, result)]]
            : r \in make_request(st, TadbSearchTrack(artist_name, track_title)) }

\* ------------------------------------------------------------------------
\* services/lastfm.py
\* ------------------------------------------------------------------------

sMega == << "m", "e", "g", "a" >>
sExtralarge == << "e", "x", "t", "r", "a", "l", "a", "r", "g", "e" >>
sLarge == << "l", "a", "r", "g", "e" >>
sMedium == << "m", "e", "d", "i", "u", "m" >>
sSmall == << "s", "m", "a", "l", "l" >>

size_priority == << sMega, sExtralarge, sLarge, sMedium, sSmall >>

\* The last non-empty URL of a size (the size map keeps the last entry).
SizeUrl(images, size) ==
  LET m == SelectSeq(images, LAMBDA img : img.size = size /\ Truthy(img.text))
  IN IF m = << >> THEN None ELSE m[Len(m)].text

\* A faulty variant of get_best_image: the first listed URL of any of the
\* five sizes.
FirstListedImage(images) ==
  LET m == SelectSeq(images,
             LAMBDA img : Truthy(img.text)
                          /\ \E i \in 1..Len(size_priority) : size_priority[i] = img.size)
  IN IF m = << >> THEN None ELSE m[1].text

get_best_image(images) ==
  LET avail == SelectSeq(size_priority, LAMBDA size : SizeUrl(images, size) # None)
  IN IF avail = << >> THEN None ELSE SizeUrl(images, avail[1])

\* The texts here carry no markup, so only the whitespace is cleaned.
clean_wiki_text(text) == Strip(SubWsRuns(text))

lfm_fetch_album_info(st, artist_name, album_name) ==
  LET cache_key == << artist_name, album_name >>
  IN IF CacheHas(st.lfm.album_cache, cache_key)
     THEN {[ret |-> st.lfm.album_cache[cache_key], st |-> st]}
     ELSE UNION {
       IF r.data.kind = "ok" /\ r.data.items # << >>
       THEN LET album_data == r.data.items[1]
                summary == album_data.summary
                image_url == get_best_image(album_data.image)
                result == [EmptyAlbumInfo EXCEPT
                             !.name = album_data.name,
                             !.wiki = IF Truthy(summary) THEN clean_wiki_text(summary)
                                      ELSE None]
            IN { LET res == [result EXCEPT !.image_url =
                               IF Truthy(u.ret) THEN u.ret ELSE None]
                 IN [ret |-> res,
                     st |-> [u.st EXCEPT !.lfm.album_cache = CacheSet(@, cache_key, res)]]
                 : u \in download_and_upload_image(r.st, image_url, artist_name,
                                                   album_name) }
       ELSE {[ret |-> EmptyAlbumInfo,
              st |-> [r.st EXCEPT !.lfm.album_cache =
                        CacheSet(@, cache_key, EmptyAlbumInfo)]]}
       : r \in make_request(st, LfmGetAlbum(artist_name, album_name)) }

\* ------------------------------------------------------------------------
\* The scanned directory (the files a scan can find, with their tags)
\* ------------------------------------------------------------------------

sDotMp3 == << ".", "m", "p", "3" >>
sDotM4a == << ".", "m", "4", "a" >>
sDotFlac == << ".", "f", "l", "a", "c" >>
sImageJpeg == << "i", "m", "a", "g", "e", "/", "j", "p", "e", "g" >>

\* config.py
NATIVE_FORMATS == {sDotMp3, sDotM4a}

\* A file with what MetadataExtractor.extract reads from it (title is the
\* tag's title or the file's stem) and the MIME type of its embedded picture.
AudioFile(suffix, title, artist, album, track_number, picture) ==
  [suffix |-> suffix, title |-> title, artist |-> artist, album |-> album,
   album_artist |-> None, track_number |-> track_number, picture |-> picture]

AudioFiles ==
  << AudioFile(sDotMp3, << "a" >>, sHo, sHDeluxe, << 1 >>, None),
     AudioFile(sDotMp3, << "a" >>, sHo, sH, << 1 >>, sImageJpeg),
     AudioFile(sDotFlac, << "a" >>, sHo, sHDeluxe, << 2 >>, sImageJpeg),
     AudioFile(sDotMp3, << "a", "!" >>, sHo, sHDeluxe, NoneI, None),
     AudioFile(sDotMp3, << "b" >>, sMi, sRSingle, << 1 >>, sImageJpeg),
     AudioFile(sDotMp3, << "b" >>, sMi, sRSingleLower, NoneI, None),
     AudioFile(sDotMp3, << "c" >>, sHo, sXxLower, NoneI, sImageJpeg),
     AudioFile(sDotMp3, << "d" >>, sHoSlashMi, sHDeluxe, << 1 >>, None),
     AudioFile(sDotMp3, << "e" >>, sHo, sRSingle, << 1 >>, None) >>

FileIds == 1..Len(AudioFiles)

\* ------------------------------------------------------------------------
\* main.py: the per-file tasks
\* ------------------------------------------------------------------------

AlbumArtistName(metadata) ==
  normalize_artist_name(Or(metadata.album_artist, Or(metadata.artist, sUnknownArtist)))

AlbumName(metadata) == Or(metadata.album, sUnknownAlbum)

\* suffix.lstrip(".")
FormatOf(file_ext) == IF file_ext # << >> /\ Head(file_ext) = "." THEN Tail(file_ext) ELSE file_ext

TargetExt(file) == IF file.suffix \in NATIVE_FORMATS THEN file.suffix ELSE sDotM4a

S3Key(metadata, corrected_album, file_ext) ==
  sanitize_s3_key(AlbumArtistName(metadata), FallbackUnknown) \o Slash
    \o sanitize_s3_key(corrected_album, FallbackUnknown) \o Slash
    \o sanitize_s3_key(metadata.title, sUnknownTrack) \o file_ext

\* The track_info dict of process_file / process_file_metadata_only, with the
\* fields the builder adds later still absent (None).
TrackDict(f, s3_key, url, embedded_artwork_url) ==
  LET metadata == AudioFiles[f]
  IN [file |-> f, title |-> metadata.title, artist |-> metadata.artist,
      album |-> metadata.album, album_artist |-> metadata.album_artist,
      track_number |-> metadata.track_number, genre |-> None, style |-> None,
      mood |-> None, theme |-> None,
      format |-> FormatOf(TargetExt(metadata)),
      original_format |-> FormatOf(metadata.suffix),
      s3_key |-> s3_key, url |-> url,
      embedded_artwork_url |-> embedded_artwork_url, album_image_url |-> None]

process_file_metadata_only(f) ==
  LET metadata == AudioFiles[f]
  IN TrackDict(f, S3Key(metadata, AlbumName(metadata), TargetExt(metadata)), None, None)

\* convert_to_m4a: the converted path, None when ffmpeg fails, or the
\* exception of the output directory's mkdir.
convert_to_m4a(st) ==
  {[ret |-> "path", st |-> st]}
    \cup (IF CanFault(st)
          THEN {[ret |-> "None", st |-> Fault(st)], [ret |-> "raise", st |-> Fault(st)]}
          ELSE {})

\* ThreadSafeCache.get on the artwork cache: None for a missing key.
CacheGet(cache, cache_key) ==
  IF CacheHas(cache, cache_key) THEN cache[cache_key] ELSE None

\* _get_embedded_artwork from the extraction on, the key being marked:
\* outcomes [ret, st, cache].
get_embedded_artwork(st, cache, f, album_artist, album) ==
  LET cache_key == << album_artist, album >>
      picture == AudioFiles[f].picture
  IN IF picture = None THEN {[ret |-> None, st |-> st, cache |-> cache]}
     ELSE { [ret |-> u.ret, st |-> u.st, cache |-> CacheSet(cache, cache_key, u.ret)]
            : u \in upload_artwork_bytes(st, picture, album_artist, album) }

\* ------------------------------------------------------------------------
\* processors/catalog.py
\* ------------------------------------------------------------------------

\* a or b, for optional integers.
OrI(a, b) == IF a # NoneI /\ a[1] # 0 THEN a ELSE b

GroupArtist(track) == Or(track.album_artist, Or(track.artist, sUnknownArtist))

GroupAlbum(track) == Or(track.album, sUnknownAlbum)

\* sorted(names): ascending by code points.
RECURSIVE SortedNames(_)
SortedNames(names) ==
  IF names = {} THEN << >>
  ELSE LET least == CHOOSE n \in names : \A m \in names \ {n} : StrLess(n, m)
       IN << least >> \o SortedNames(names \ {least})

\* artist_albums of build: the artists in sorted order, each with its albums
\* in sorted order, each with its tracks in the order of the input.
GroupTracks(input) ==
  LET artist_names ==
        SortedNames({GroupArtist(input[i]) : i \in 1..Len(input)})
      AlbumsOf(artist) ==
        SortedNames({GroupAlbum(input[i]) :
                       i \in {k \in 1..Len(input) : GroupArtist(input[k]) = artist}})
      TracksOf(artist, album) ==
        SelectSeq(input, LAMBDA t : GroupArtist(t) = artist /\ GroupAlbum(t) = album)
  IN [a \in 1..Len(artist_names) |->
        [name |-> artist_names[a],
         albums |-> [b \in 1..Len(AlbumsOf(artist_names[a])) |->
                       [name |-> AlbumsOf(artist_names[a])[b],
                        tracks |-> TracksOf(artist_names[a],
                                            AlbumsOf(artist_names[a])[b])]]]]

\* The sort key (track_number or 999, title).
SortNumber(track) ==
  IF track.track_number # NoneI /\ track.track_number[1] # 0
  THEN track.track_number[1] ELSE 999

SortKeyLess(a, b) ==
  \/ SortNumber(a) < SortNumber(b)
  \/ SortNumber(a) = SortNumber(b) /\ StrLess(a.title, b.title)

\* list.sort(key): stable.
RECURSIVE SortTracks(_)
SortTracks(ts) ==
  IF ts = << >> THEN << >>
  ELSE LET rest == SortTracks(SubSeq(ts, 1, Len(ts) - 1))
           x == ts[Len(ts)]
           k == Cardinality({i \in 1..Len(rest) : ~SortKeyLess(x, rest[i])})
       IN SubSeq(rest, 1, k) \o << x >> \o SubSeq(rest, k + 1, Len(rest))

is_album_info_empty(info) ==
  ~(Truthy(info.image_url) \/ Truthy(info.wiki) \/ Truthy(info.genre))

\* A faulty variant of merge_album_info: the fallback's values win.
PreferFallback(primary, fallback) ==
  [image_url |-> Or(fallback.image_url, primary.image_url),
   wiki |-> Or(fallback.wiki, primary.wiki),
   release_date |-> OrI(fallback.release_date, primary.release_date),
   genre |-> Or(fallback.genre, primary.genre),
   style |-> Or(fallback.style, primary.style),
   mood |-> Or(fallback.mood, primary.mood),
   theme |-> Or(fallback.theme, primary.theme),
   name |-> Or(fallback.name, primary.name)]

merge_album_info(primary, fallback) ==
  [image_url |-> Or(primary.image_url, fallback.image_url),
   wiki |-> Or(primary.wiki, fallback.wiki),
   release_date |-> OrI(primary.release_date, fallback.release_date),
   genre |-> Or(primary.genre, fallback.genre),
   style |-> Or(primary.style, fallback.style),
   mood |-> Or(primary.mood, fallback.mood),
   theme |-> Or(primary.theme, fallback.theme),
   name |-> Or(primary.name, fallback.name)]

\* The first embedded artwork URL among the tracks, or None.
FirstEmbedded(ts) ==
  LET m == SelectSeq(ts, LAMBDA t : Truthy(t.embedded_artwork_url))
  IN IF m = << >> THEN None ELSE m[1].embedded_artwork_url

\* A faulty variant of RewriteKey: the key keeps its local album segment.
KeepOldKey(old_s3_key, artist_name, display_album_name) == old_s3_key

\* The storage key with its album segment replaced by the corrected name.
RewriteKey(old_s3_key, artist_name, display_album_name) ==
  LET parts == SplitSlash(old_s3_key)
  IN IF Len(parts) >= 3
     THEN sanitize_s3_key(artist_name, FallbackUnknown) \o Slash
            \o sanitize_s3_key(display_album_name, FallbackUnknown) \o Slash
            \o parts[Len(parts)]
     ELSE old_s3_key

\* A faulty variant of PropagateArtwork: the album image is not propagated.
KeepArtwork(embedded_artwork_url, album_image) == embedded_artwork_url

\* The album image for a track without embedded artwork.
PropagateArtwork(embedded_artwork_url, album_image) ==
  IF ~Truthy(embedded_artwork_url) /\ Truthy(album_image) THEN album_image
  ELSE embedded_artwork_url

\* A faulty variant of Enrich: the album-level values replace the track's own.
EnrichOverwriting(track, artist_name, album_name, display_album_name, album_genre, album_info, album_image) ==
  [track EXCEPT !.album = display_album_name,
                !.genre = Or(album_genre, @),
                !.style = Or(album_info.style, @),
                !.mood = Or(album_info.mood, @),
                !.theme = Or(album_info.theme, @),
                !.album_image_url = album_image]

\* One pass of the enrichment loop.
Enrich(track, artist_name, album_name, display_album_name, album_genre, album_info, album_image) ==
  LET rewrite == display_album_name # album_name /\ Truthy(track.s3_key)
                   /\ Len(SplitSlash(track.s3_key)) >= 3
      s3_key == IF rewrite
                THEN RewriteKey(track.s3_key, artist_name, display_album_name)
                ELSE track.s3_key
  IN [track EXCEPT
        !.album = display_album_name,
        !.s3_key = s3_key,
        !.url = IF rewrite THEN get_public_url(s3_key) ELSE @,
        !.genre = Or(@, album_genre),
        !.style = Or(@, album_info.style),
        !.mood = Or(@, album_info.mood),
        !.theme = Or(@, album_info.theme),
        !.album_image_url = album_image,
        !.embedded_artwork_url = PropagateArtwork(@, album_image)]

\* A faulty variant of DedupTracks: no track is dropped.
KeepAllTracks(ts) == ts

\* The deduplication by s3_key: the first occurrence of a key is kept, and
\* so is every track without a key.
DedupTracks(ts) ==
  LET F[k \in 0..Len(ts)] ==
        IF k = 0 THEN << >>
        ELSE IF \/ ~Truthy(ts[k].s3_key)
                \/ \A j \in 1..(k - 1) : ts[j].s3_key # ts[k].s3_key
             THEN Append(F[k - 1], ts[k])
             ELSE F[k - 1]
  IN F[Len(ts)]

\* The position of _build_album between its lookups: the album info and
\* image so far, what each provider answered, and whether an exception left.
AlbumWork(tadb_info, st) ==
  [info |-> tadb_info, image |-> tadb_info.image_url, st |-> st, exc |-> FALSE,
   tadb |-> tadb_info, lfm_used |-> FALSE, lfm |-> EmptyAlbumInfo,
   release |-> Nothing, searched |-> FALSE, track_album |-> None,
   display |-> None, lookup |-> NoLookup, relookup |-> NoLookup]

\* The fallback to Last.fm.
WithLastfm(c, artist_name, album_name) ==
  IF lfm_enabled /\ is_album_info_empty(c.info)
  THEN { LET merged == merge_album_info(c.info, l.ret)
         IN [c EXCEPT !.info = merged,
                      !.image = IF ~Truthy(@) /\ Truthy(merged.image_url)
                                THEN merged.image_url ELSE @,
                      !.lfm_used = TRUE, !.lfm = l.ret, !.st = l.st]
         : l \in lfm_fetch_album_info(c.st, artist_name, album_name) }
  ELSE {c}

\* The fallback to the tracks' embedded artwork.
WithEmbedded(c, sorted_tracks) ==
  IF ~Truthy(c.image) THEN [c EXCEPT !.image = FirstEmbedded(sorted_tracks)] ELSE c

\* The release details of MusicBrainz.
WithRelease(c, artist_name, album_name) ==
  IF mb_enabled
  THEN { [c EXCEPT !.release = << r.ret >>, !.exc = r.exc, !.st = r.st]
         : r \in get_release_details(c.st, artist_name, album_name) }
  ELSE {c}

\* The final fallback of the album's name: the release title of MusicBrainz.
WithReleaseTitle(c, album_name) ==
  IF c.display = album_name /\ c.release # Nothing /\ Truthy(c.release[1].title)
  THEN [c EXCEPT !.display = c.release[1].title]
  ELSE c

\* The corrected album name.
WithDisplayName(c, artist_name, album_name, sorted_tracks) ==
  IF c.exc THEN {c}
  ELSE IF Truthy(c.info.name) THEN {[c EXCEPT !.display = c.info.name]}
  ELSE IF sorted_tracks = << >> \/ ~Truthy(sorted_tracks[1].title)
  THEN {WithReleaseTitle([c EXCEPT !.display = album_name], album_name)}
  ELSE UNION {
    IF Truthy(t.ret.album)
    THEN { LET corrected == k.ret
               better == Truthy(corrected.wiki) \/ Truthy(corrected.image_url)
           IN WithReleaseTitle(
                [c EXCEPT !.display = t.ret.album, !.searched = TRUE,
                          !.track_album = t.ret.album,
                          !.info = IF better THEN corrected ELSE @,
                          !.image = IF better /\ ~Truthy(@)
                                       /\ Truthy(corrected.image_url)
                                    THEN corrected.image_url ELSE @,
                          !.st = k.st, !.relookup = k.lookup], album_name)
           : k \in fetch_album_info(t.st, artist_name, t.ret.album) }
    ELSE {WithReleaseTitle([c EXCEPT !.display = album_name, !.searched = TRUE,
                                     !.st = t.st], album_name)}
    : t \in fetch_track_info(c.st, artist_name, sorted_tracks[1].title) }

\* The Album node, once the names and the image are settled.
AlbumNode(c, artist_name, album_name, sorted_tracks, artist_genre) ==
  LET release_details == IF c.release # Nothing THEN c.release[1]
                         ELSE EmptyReleaseDetails
      album_genre == Or(c.info.genre, artist_genre)
      enriched_tracks ==
        [i \in 1..Len(sorted_tracks) |->
           Enrich(sorted_tracks[i], artist_name, album_name, c.display, album_genre,
                  c.info, c.image)]
  IN [name |-> c.display, image_url |-> c.image, wiki |-> c.info.wiki,
      release_date |-> OrI(release_details.release_date, c.info.release_date),
      genre |-> album_genre, style |-> c.info.style, mood |-> c.info.mood,
      theme |-> c.info.theme, tracks |-> DedupTracks(enriched_tracks),
      release_type |-> release_details.release_type,
      country |-> release_details.country, label |-> release_details.label,
      barcode |-> release_details.barcode,
      media_format |-> release_details.media_format]

\* _build_album: outcomes [exc, album, st, work, input]; work and input keep
\* what the lookups answered and the sorted tracks the album was built from.
build_album(st, artist_name, album_name, album_tracks, artist_genre) ==
  LET sorted_tracks == SortTracks(album_tracks)
      fetched == { [AlbumWork(o.ret, o.st) EXCEPT !.lookup = o.lookup]
                   : o \in fetch_album_info(st, artist_name, album_name) }
      merged == UNION { WithLastfm(c, artist_name, album_name) : c \in fetched }
      imaged == { WithEmbedded(c, sorted_tracks) : c \in merged }
      released == UNION { WithRelease(c, artist_name, album_name) : c \in imaged }
      named == UNION { WithDisplayName(c, artist_name, album_name, sorted_tracks)
                       : c \in released }
  IN { [exc |-> c.exc,
        album |-> IF c.exc THEN Nothing
                  ELSE << AlbumNode(c, artist_name, album_name, sorted_tracks, artist_genre) >>,
        st |-> c.st,
        work |-> [c EXCEPT !.st = << >>],
        local_name |-> album_name,
        input |-> sorted_tracks]
       : c \in named }

\* _build_artist up to its loop over the albums: outcomes [exc, info, details, st].
build_artist(st, name) ==
  UNION { IF mb_enabled
          THEN { [exc |-> d.exc, info |-> a.ret, details |-> d.ret, st |-> d.st]
                 : d \in get_artist_details(a.st, name) }
          ELSE {[exc |-> FALSE, info |-> a.ret, details |-> EmptyArtistDetails,
                 st |-> a.st]}
          : a \in fetch_artist_info(st, name) }

\* The Artist node.
ArtistNode(name, artist_info, artist_details, albums) ==
  [name |-> name, bio |-> artist_info.bio, image_url |-> artist_info.image_url,
   genre |-> artist_info.genre, style |-> artist_info.style,
   mood |-> artist_info.mood, albums |-> albums,
   artist_type |-> artist_details.artist_type, area |-> artist_details.area,
   begin_date |-> artist_details.begin_date, end_date |-> artist_details.end_date,
   disambiguation |-> artist_details.disambiguation]

\* The number of tracks in the albums of the artists.
RECURSIVE CountTracks(_)
CountTracks(artists) ==
  IF artists = << >> THEN 0
  ELSE LET albums == Head(artists).albums
           N[b \in 0..Len(albums)] ==
             IF b = 0 THEN 0 ELSE N[b - 1] + Len(albums[b].tracks)
       IN N[Len(albums)] + CountTracks(Tail(artists))

\* A faulty variant of CatalogOf: the total counts the tracks after the
\* deduplication.
CatalogOfKept(artists, input) ==
  [artists |-> artists, total_tracks |-> CountTracks(artists)]

\* The Catalog that build returns (generated_at is the wall clock, left out).
CatalogOf(artists, input) == [artists |-> artists, total_tracks |-> Len(input)]

\* ------------------------------------------------------------------------
\* main.py: run
\* ------------------------------------------------------------------------

\* No request path and no sanitising is under way.
HttpIdle == [client |-> "none"]

SanIdle == [step |-> "none"]

\* No function is being applied, no conversion is looked at.
FnIdle == [op |-> "none"]

ConvIdle == [run |-> 0]

\* No cache is looked at on its own.
GocIdle == [calls |-> 0]

\* The run is on its own.
Once == [run |-> 0, catalog |-> << >>]

\* A task's local variables: the album info it fetched and whether the
\* album cache missed, what the task returned (Nothing is None), and
\* whether an exception left it.
InitLocal ==
  [album_info |-> EmptyAlbumInfo, miss |-> FALSE, result |-> Nothing,
   raised |-> FALSE, lookup |-> NoLookup, in_flight_seen |-> FALSE]

InitServices ==
  [tadb |-> [artist_cache |-> EmptyCache, artist_id_cache |-> EmptyCache,
             album_cache |-> EmptyCache, track_cache |-> EmptyCache],
   mb |-> [artist_cache |-> EmptyCache, artist_details_cache |-> EmptyCache,
           release_cache |-> EmptyCache],
   lfm |-> [album_cache |-> EmptyCache],
   storage |-> [bucket |-> {}, cache_set |-> FALSE, existing_keys_cache |-> {}],
   faults |-> 0]

\* build's local variables: the input, the groups, the artist (a) and album
\* (b) it is at, the current artist's info and albums, the artists built, and
\* for every album built what its lookups answered.
InitBuild ==
  [input |-> << >>, groups |-> << >>, a |-> 0, b |-> 0,
   artist_info |-> EmptyArtistInfo, artist_details |-> EmptyArtistDetails,
   albums |-> << >>, artists |-> << >>, log |-> << >>]

\* run up to the submission of the tasks: the scan found files, the remote
\* listing (of an empty bucket) became the existence cache unless dry_run.
\* What storage holds before the run: nothing, or the catalog of an earlier run.
PreviousObjects(scanned) ==
  IF Cardinality(scanned) <= MaxFilesOverCatalog THEN {{}, {sCatalogKey}} ELSE {{}}

Init ==
  /\ dry_run \in BOOLEAN
  /\ mb_enabled \in BOOLEAN
  /\ lfm_enabled \in BOOLEAN
  /\ files \in {S \in SUBSET FileIds : Cardinality(S) \in 1..MaxFiles}
  /\ task = [f \in files |-> "ready"]
  /\ local = [f \in files |-> InitLocal]
  /\ \E old \in PreviousObjects(files) :
       svc = [InitServices EXCEPT !.storage.bucket = old,
                                  !.storage.cache_set = ~dry_run,
                                  !.storage.existing_keys_cache =
                                     IF dry_run THEN {} ELSE old]
  /\ art_cache = EmptyCache
  /\ tracks = << >>
  /\ pc = "processing"
  /\ build = InitBuild
  /\ catalog = Nothing
  /\ http = HttpIdle
  /\ san = SanIdle
  /\ fn = FnIdle
  /\ conv = ConvIdle
  /\ goc = GocIdle
  /\ again = Once

\* process_file from its start to the answer of the album lookup.
StartTask(f) ==
  /\ pc = "processing" /\ ~dry_run /\ task[f] = "ready"
  /\ LET metadata == AudioFiles[f]
         cache_key == << AlbumArtistName(metadata), AlbumName(metadata) >>
     IN \E c \in (IF metadata.suffix \in NATIVE_FORMATS
                  THEN {[ret |-> "path", st |-> svc]}
                  ELSE convert_to_m4a(svc)) :
          IF c.ret = "None"
          THEN /\ task' = [task EXCEPT ![f] = "returned"]
               /\ svc' = c.st
               /\ UNCHANGED local
          ELSE IF c.ret = "raise"
          THEN /\ task' = [task EXCEPT ![f] = "raised"]
               /\ local' = [local EXCEPT ![f].raised = TRUE]
               /\ svc' = c.st
          ELSE IF CacheHas(c.st.tadb.album_cache, cache_key)
          THEN /\ task' = [task EXCEPT ![f] = "looked_up"]
               /\ local' = [local EXCEPT
                              ![f].album_info = c.st.tadb.album_cache[cache_key]]
               /\ svc' = c.st
          ELSE \E o \in lookup_album_info(c.st, cache_key[1], cache_key[2]) :
                 /\ task' = [task EXCEPT ![f] = "looked_up"]
                 /\ local' = [local EXCEPT ![f].album_info = o.ret,
                                           ![f].miss = TRUE,
                                           ![f].lookup = o.lookup]
                 /\ svc' = o.st
  /\ UNCHANGED << dry_run, mb_enabled, lfm_enabled, files, art_cache, tracks, pc,
                  build, catalog >>
  /\ UNCHANGED << http, san, fn, conv, goc, again >>

\* The album name process_file works with once the album info is there.
CorrectedAlbum(f) ==
  IF Truthy(local[f].album_info.name) THEN local[f].album_info.name
  ELSE AlbumName(AudioFiles[f])

\* The key of the artwork cache for a file.
ArtworkKey(f) == << AlbumArtistName(AudioFiles[f]), CorrectedAlbum(f) >>

\* The tasks between the mark of their key in the artwork cache and its
\* resolution.
InFlight(cache_key) == {g \in files : task[g] = "artwork" /\ ArtworkKey(g) = cache_key}

\* process_file from the album cache's set to the artwork cache's mark (or
\* to its return, when the upload fails or the artwork is cached).
FinishTask(f) ==
  /\ pc = "processing" /\ task[f] = "looked_up"
  /\ LET metadata == AudioFiles[f]
         album_artist_name == AlbumArtistName(metadata)
         album_name == AlbumName(metadata)
         album_info == local[f].album_info
         st1 == IF local[f].miss
                THEN [svc EXCEPT !.tadb.album_cache =
                        CacheSet(@, << album_artist_name, album_name >>, album_info)]
                ELSE svc
         s3_key == S3Key(metadata, CorrectedAlbum(f), TargetExt(metadata))
         cached == CacheGet(art_cache, ArtworkKey(f))
     IN \E u \in (IF file_exists(st1, s3_key) THEN {[ret |-> TRUE, st |-> st1]}
                  ELSE upload_file(st1, s3_key)) :
          /\ svc' = u.st
          /\ IF ~u.ret
             THEN /\ task' = [task EXCEPT ![f] = "returned"]
                  /\ UNCHANGED << local, art_cache >>
             ELSE IF cached # None
             THEN /\ task' = [task EXCEPT ![f] = "returned"]
                  /\ local' = [local EXCEPT ![f].result =
                                 << TrackDict(f, s3_key, get_public_url(s3_key), cached) >>]
                  /\ UNCHANGED art_cache
             ELSE /\ task' = [task EXCEPT ![f] = "artwork"]
                  /\ art_cache' = CacheSet(art_cache, ArtworkKey(f), None)
                  /\ local' = [local EXCEPT ![f].in_flight_seen =
                                 InFlight(ArtworkKey(f)) # {}]
  /\ UNCHANGED << dry_run, mb_enabled, lfm_enabled, files, tracks, pc, build, catalog >>
  /\ UNCHANGED << http, san, fn, conv, goc, again >>

\* process_file from the artwork's extraction to its return.
ArtworkTask(f) ==
  /\ pc = "processing" /\ task[f] = "artwork"
  /\ LET metadata == AudioFiles[f]
         s3_key == S3Key(metadata, CorrectedAlbum(f), TargetExt(metadata))
     IN \E e \in get_embedded_artwork(svc, art_cache, f, AlbumArtistName(metadata),
                                       CorrectedAlbum(f)) :
          /\ svc' = e.st
          /\ art_cache' = e.cache
          /\ local' = [local EXCEPT ![f].result =
                         << TrackDict(f, s3_key, get_public_url(s3_key), e.ret) >>]
  /\ task' = [task EXCEPT ![f] = "returned"]
  /\ UNCHANGED << dry_run, mb_enabled, lfm_enabled, files, tracks, pc, build, catalog >>
  /\ UNCHANGED << http, san, fn, conv, goc, again >>

\* process_file_metadata_only.
DryTask(f) ==
  /\ pc = "processing" /\ dry_run /\ task[f] = "ready"
  /\ task' = [task EXCEPT ![f] = "returned"]
  /\ local' = [local EXCEPT ![f].result = << process_file_metadata_only(f) >>]
  /\ UNCHANGED << dry_run, mb_enabled, lfm_enabled, files, svc, art_cache, tracks, pc,
                  build, catalog >>
  /\ UNCHANGED << http, san, fn, conv, goc, again >>

\* A faulty variant of CollectResult: the result replaces the list.
CollectLast(collected, loc) ==
  IF ~loc.raised /\ loc.result # Nothing THEN << loc.result[1] >> ELSE collected

\* One pass of the as_completed loop: future.result() in the try, the
\* append of a result that is not None.
CollectResult(collected, loc) ==
  IF ~loc.raised /\ loc.result # Nothing THEN Append(collected, loc.result[1])
  ELSE collected

Collect(f) ==
  /\ pc = "processing" /\ task[f] \in {"returned", "raised"}
  /\ tracks' = CollectResult(tracks, local[f])
  /\ task' = [task EXCEPT ![f] = "collected"]
  /\ UNCHANGED << dry_run, mb_enabled, lfm_enabled, files, local, svc, art_cache, pc,
                  build, catalog >>
  /\ UNCHANGED << http, san, fn, conv, goc, again >>

\* A faulty variant of JoinDone: the first collected result ends the wait.
JoinAny == \E f \in files : task[f] = "collected"

\* The as_completed loop has yielded every future and the executor's with
\* block has been left.
JoinDone == \A f \in files : task[f] = "collected"

\* build: the grouping of the tracks.
BuildStart ==
  /\ pc = "processing" /\ JoinDone
  /\ pc' = "build"
  /\ build' = [InitBuild EXCEPT !.input = tracks, !.groups = GroupTracks(tracks),
                                !.a = 1]
  /\ UNCHANGED << dry_run, mb_enabled, lfm_enabled, files, task, local, svc, art_cache,
                  tracks, catalog >>
  /\ UNCHANGED << http, san, fn, conv, goc, again >>

\* _build_artist: the artist's lookups.
BuildArtist ==
  /\ pc = "build" /\ build.a <= Len(build.groups) /\ build.b = 0
  /\ \E o \in build_artist(svc, build.groups[build.a].name) :
       /\ svc' = o.st
       /\ IF o.exc
          THEN pc' = "aborted" /\ UNCHANGED build
          ELSE /\ build' = [build EXCEPT !.artist_info = o.info,
                                         !.artist_details = o.details,
                                         !.albums = << >>, !.b = 1]
               /\ UNCHANGED pc
  /\ UNCHANGED << dry_run, mb_enabled, lfm_enabled, files, task, local, art_cache,
                  tracks, catalog >>
  /\ UNCHANGED << http, san, fn, conv, goc, again >>

\* _build_artist: one pass of its loop over the albums, and after the last
\* album its return to build's loop over the artists.
BuildAlbum ==
  /\ pc = "build" /\ build.a <= Len(build.groups) /\ build.b >= 1
  /\ LET group == build.groups[build.a]
         entry == group.albums[build.b]
     IN \E o \in build_album(svc, group.name, entry.name, entry.tracks,
                             build.artist_info.genre) :
          /\ svc' = o.st
          /\ IF o.exc
             THEN pc' = "aborted" /\ UNCHANGED build
             ELSE LET albums == Append(build.albums, o.album[1])
                      log == Append(build.log,
                                    [artist |-> group.name, local_name |-> entry.name,
                                     input |-> o.input, work |-> o.work,
                                     album |-> o.album[1]])
                  IN /\ build' =
                          IF build.b < Len(group.albums)
                          THEN [build EXCEPT !.albums = albums, !.log = log,
                                             !.b = @ + 1]
                          ELSE [build EXCEPT
                                  !.albums = << >>, !.log = log, !.b = 0, !.a = @ + 1,
                                  !.artists =
                                     Append(@, ArtistNode(group.name, build.artist_info,
                                                          build.artist_details, albums))]
                     /\ UNCHANGED pc
  /\ UNCHANGED << dry_run, mb_enabled, lfm_enabled, files, task, local, art_cache,
                  tracks, catalog >>
  /\ UNCHANGED << http, san, fn, conv, goc, again >>

\* build: the Catalog it returns.
BuildFinish ==
  /\ pc = "build" /\ build.a > Len(build.groups)
  /\ catalog' = << CatalogOf(build.artists, build.input) >>
  /\ pc' = "built"
  /\ UNCHANGED << dry_run, mb_enabled, lfm_enabled, files, task, local, svc, art_cache,
                  tracks, build >>
  /\ UNCHANGED << http, san, fn, conv, goc, again >>

\* run after build: the catalog file is written and, unless dry_run, uploaded.
SaveCatalog ==
  /\ pc = "built"
  /\ pc' = "done"
  /\ IF dry_run THEN UNCHANGED svc
     ELSE \E u \in upload_catalog(svc) : svc' = u.st
  /\ UNCHANGED << dry_run, mb_enabled, lfm_enabled, files, task, local, art_cache,
                  tracks, build, catalog >>
  /\ UNCHANGED << http, san, fn, conv, goc, again >>

Next ==
  \/ \E f \in files : StartTask(f)
  \/ \E f \in files : FinishTask(f)
  \/ \E f \in files : ArtworkTask(f)
  \/ \E f \in files : DryTask(f)
  \/ \E f \in files : Collect(f)
  \/ BuildStart
  \/ BuildArtist
  \/ BuildAlbum
  \/ BuildFinish
  \/ SaveCatalog

Spec == Init /\ [][Next]_vars

\* ------------------------------------------------------------------------
\* The run, made twice from one start with every request answered
\* ------------------------------------------------------------------------

\* The clients of a run in which no request fails, and an empty storage.
UnfailingServices ==
  [InitServices EXCEPT !.storage.cache_set = ~dry_run, !.faults = MaxFaults]

InitRerun ==
  /\ dry_run \in BOOLEAN
  /\ mb_enabled \in BOOLEAN
  /\ lfm_enabled \in BOOLEAN
  /\ files \in {S \in SUBSET FileIds : Cardinality(S) \in 1..MaxFiles}
  /\ task = [f \in files |-> "ready"]
  /\ local = [f \in files |-> InitLocal]
  /\ svc = UnfailingServices
  /\ art_cache = EmptyCache
  /\ tracks = << >>
  /\ pc = "processing"
  /\ build = InitBuild
  /\ catalog = Nothing
  /\ http = HttpIdle
  /\ san = SanIdle
  /\ fn = FnIdle
  /\ conv = ConvIdle
  /\ goc = GocIdle
  /\ again = [run |-> 1, catalog |-> Nothing]

\* The first run is over: its catalog is kept, and the same files are run
\* again from the same start, the worker tasks free to complete in another
\* order.
RunAgain ==
  /\ pc = "done" /\ again.run = 1
  /\ again' = [run |-> 2, catalog |-> catalog]
  /\ UNCHANGED << dry_run, mb_enabled, lfm_enabled, files >>
  /\ task' = [f \in files |-> "ready"]
  /\ local' = [f \in files |-> InitLocal]
  /\ svc' = UnfailingServices
  /\ art_cache' = EmptyCache
  /\ tracks' = << >>
  /\ pc' = "processing"
  /\ build' = InitBuild
  /\ catalog' = Nothing
  /\ UNCHANGED << http, san, fn, conv, goc >>

NextRerun ==
  \/ Next
  \/ RunAgain

SpecRerun == InitRerun /\ [][NextRerun]_vars

\* ------------------------------------------------------------------------
\* One client's request path: _rate_limit and _make_request
\* (theaudiodb.py, musicbrainz.py, lastfm.py)
\* ------------------------------------------------------------------------

\* The callers (worker threads) that go through the one client.
MaxCallers == 2

\* The calls of _make_request each caller makes.
MaxCalls == 1

\* The last reading of the clock; the clock counts quarters of a second.
MaxTime == 20

\* n seconds on the clock.
Seconds(n) == 4 * n

\* No run is under way.
RunIdle ==
  /\ dry_run = TRUE /\ mb_enabled = FALSE /\ lfm_enabled = FALSE
  /\ files = {} /\ task = << >> /\ local = << >>
  /\ svc = InitServices /\ art_cache = EmptyCache /\ tracks = << >>
  /\ pc = "idle" /\ build = InitBuild /\ catalog = Nothing

Clients == {"theaudiodb", "musicbrainz", "lastfm"}

\* MIN_REQUEST_INTERVAL of the client (0.5 s, 0.25 s), 1.0 s for MusicBrainz.
MinInterval(client) ==
  CASE client = "theaudiodb" -> 2
    [] client = "musicbrainz" -> 4
    [] client = "lastfm" -> 1

\* _make_request's default max_retries.
max_retries == 3

\* What one attempt can meet: a JSON object, a JSON object that signals an
\* error of the API, or a requests.RequestException (timeout, connection
\* error, HTTP error status).
Outcomes == {"json", "error", "RequestException"}

\* A faulty variant of GateSleep: the gate never holds a caller back.
NoGateSleep(elapsed, interval) == 0

\* _rate_limit: the time to sleep inside the gate.
GateSleep(elapsed, interval) ==
  IF elapsed < interval THEN interval - elapsed ELSE 0

\* A faulty variant of AfterResponse: an error body is retried like an
\* exception.
RetryOnError(client, outcome, attempt) ==
  IF outcome = "json" THEN [retry |-> FALSE, ret |-> "data", sleep |-> 0]
  ELSE IF attempt < max_retries - 1
  THEN [retry |-> TRUE, ret |-> "pending", sleep |-> Seconds(2 ^ attempt)]
  ELSE [retry |-> FALSE, ret |-> "None", sleep |-> 0]

\* _make_request after an attempt: the value returned (the JSON object, the
\* error body where the client does not look for one, None), or the backoff
\* sleep before the next attempt.
AfterResponse(client, outcome, attempt) ==
  IF outcome = "json" THEN [retry |-> FALSE, ret |-> "data", sleep |-> 0]
  ELSE IF outcome = "error"
  THEN [retry |-> FALSE,
        ret |-> IF client = "lastfm" THEN "None" ELSE "error_body", sleep |-> 0]
  ELSE IF attempt < max_retries - 1
  THEN [retry |-> TRUE, ret |-> "pending", sleep |-> Seconds(2 ^ attempt)]
  ELSE [retry |-> FALSE, ret |-> "None", sleep |-> 0]

Callers == 1..MaxCallers

\* A caller outside _make_request.
InitCaller ==
  [pc |-> "idle", attempt |-> 0, wake |-> 0, calls |-> 0, sleeps |-> << >>,
   outcomes |-> << >>, ret |-> "pending"]

\* No caller has passed the gate yet.
NoPass == [caller |-> 0, slept |-> FALSE, gap |-> 0, count |-> 0, first_at |-> 0]

\* The service after __init__ (_last_request_time = 0.0, the lock free) at
\* some time of day. last_pass keeps of the passes through the gate: who
\* passed last, whether after a sleep, how long after the pass before (an
\* interval and more count alike), how many passed, and when the first did.
InitRequest ==
  /\ RunIdle
  /\ san = SanIdle
  /\ fn = FnIdle
  /\ conv = ConvIdle
  /\ goc = GocIdle
  /\ again = Once
  /\ \E client \in Clients :
       http = [client |-> client, now |-> Seconds(1), last_request_time |-> 0,
               lock |-> 0, caller |-> [t \in Callers |-> InitCaller],
               last_pass |-> NoPass]

\* The pass through the gate: _last_request_time = time.time(), lock released.
Pass(t, slept) ==
  LET gap == http.now - http.last_request_time
      T == MinInterval(http.client)
  IN [http EXCEPT !.last_request_time = http.now, !.lock = 0,
                  !.caller[t].pc = "send", !.caller[t].wake = 0,
                  !.last_pass =
                     [caller |-> t, slept |-> slept,
                      gap |-> IF gap > T THEN T + 1 ELSE gap,
                      count |-> @.count + 1,
                      first_at |-> IF @.count = 0 THEN http.now ELSE @.first_at]]

\* A caller enters _make_request.
Call(t) ==
  /\ http.caller[t].pc = "idle" /\ http.caller[t].calls < MaxCalls
  /\ http' = [http EXCEPT !.caller[t] =
                 [InitCaller EXCEPT !.pc = "gate",
                                    !.calls = http.caller[t].calls + 1]]
  /\ UNCHANGED << run_vars, san, fn, conv, goc, again >>

\* _rate_limit: the lock is taken, the elapsed time read; the caller sleeps
\* in the gate or passes at once.
EnterGate(t) ==
  /\ http.caller[t].pc = "gate" /\ http.lock = 0
  /\ LET sleep_time == GateSleep(http.now - http.last_request_time,
                                 MinInterval(http.client))
     IN http' = IF sleep_time > 0
                THEN [http EXCEPT !.lock = t, !.caller[t].pc = "gate_sleep",
                                  !.caller[t].wake = http.now + sleep_time]
                ELSE Pass(t, FALSE)
  /\ UNCHANGED << run_vars, san, fn, conv, goc, again >>

\* _rate_limit: the sleep is over.
LeaveGate(t) ==
  /\ http.caller[t].pc = "gate_sleep" /\ http.now >= http.caller[t].wake
  /\ http' = Pass(t, TRUE)
  /\ UNCHANGED << run_vars, san, fn, conv, goc, again >>

\* The attempt's requests.get, raise_for_status and json, and what
\* _make_request does with the outcome.
Respond(t) ==
  /\ http.caller[t].pc = "send"
  /\ \E outcome \in Outcomes :
       LET c == http.caller[t]
           a == AfterResponse(http.client, outcome, c.attempt)
       IN http' = [http EXCEPT !.caller[t] =
                     IF a.retry
                     THEN [c EXCEPT !.pc = "backoff", !.wake = http.now + a.sleep,
                                    !.sleeps = Append(@, a.sleep),
                                    !.outcomes = Append(@, outcome)]
                     ELSE [c EXCEPT !.pc = "idle", !.ret = a.ret,
                                    !.outcomes = Append(@, outcome)]]
  /\ UNCHANGED << run_vars, san, fn, conv, goc, again >>

\* The backoff sleep is over: the next attempt.
Retry(t) ==
  /\ http.caller[t].pc = "backoff" /\ http.now >= http.caller[t].wake
  /\ http' = [http EXCEPT !.caller[t].pc = "gate", !.caller[t].attempt = @ + 1,
                          !.caller[t].wake = 0]
  /\ UNCHANGED << run_vars, san, fn, conv, goc, again >>

\* A quarter of a second passes.
Tick ==
  /\ http.now < MaxTime
  /\ http' = [http EXCEPT !.now = @ + 1]
  /\ UNCHANGED << run_vars, san, fn, conv, goc, again >>

NextRequest ==
  \/ \E t \in Callers : Call(t)
  \/ \E t \in Callers : EnterGate(t)
  \/ \E t \in Callers : LeaveGate(t)
  \/ \E t \in Callers : Respond(t)
  \/ \E t \in Callers : Retry(t)
  \/ Tick

SpecRequest == InitRequest /\ [][NextRequest]_vars

\* ------------------------------------------------------------------------
\* utils/identifiers.py: sanitize_s3_key applied to a name, and to its result
\* ------------------------------------------------------------------------

\* The length of the names sanitized.
MaxLen == 3

\* Characters of every kind the function tells apart: letters, a digit, the
\* dash, whitespace, the underscore, and characters it removes.
NameChars == {"a", "Z", "0", "-", " ", "_", "!", "."}

Names == UNION { [1..n -> NameChars] : n \in 0..MaxLen }

\* The fallbacks of the callers: the default, and those of storage.py and
\* main.py.
Fallbacks == {FallbackUnknown, sUnknownArtist, sUnknownAlbum, sUnknownTrack}

InitSanitize ==
  /\ RunIdle
  /\ http = HttpIdle
  /\ fn = FnIdle
  /\ conv = ConvIdle
  /\ goc = GocIdle
  /\ again = Once
  /\ \E name \in Names, fallback \in Fallbacks :
       san = [step |-> "start", name |-> name, fallback |-> fallback,
              once |-> << >>, twice |-> << >>]

\* sanitize_s3_key(name, fallback)
SanitizeOnce ==
  /\ san.step = "start"
  /\ san' = [san EXCEPT !.step = "once",
                        !.once = sanitize_s3_key(san.name, san.fallback)]
  /\ UNCHANGED << run_vars, http, fn, conv, goc, again >>

\* sanitize_s3_key applied to the result, with the same fallback.
SanitizeTwice ==
  /\ san.step = "once"
  /\ san' = [san EXCEPT !.step = "twice",
                        !.twice = sanitize_s3_key(san.once, san.fallback)]
  /\ UNCHANGED << run_vars, http, fn, conv, goc, again >>

NextSanitize == SanitizeOnce \/ SanitizeTwice

SpecSanitize == InitSanitize /\ [][NextSanitize]_vars

\* ------------------------------------------------------------------------
\* The pure functions, each applied to an input
\* ------------------------------------------------------------------------

\* The length of the date strings, the number of pieces of an album name,
\* the number of entries of an image list, the number of tracks sorted.
MaxDate == 5

MaxPieces == 3

MaxImages == 3

MaxTracks == 3

Applying(op, arg) == [op |-> op, arg |-> arg, out |-> Nothing, done |-> FALSE]

Applied(op) == fn.op = op /\ fn.done

\* extract_year's inputs: None, integers of one, four, five and eight digits,
\* strings of digits, dashes, blanks and letters.
DateChars == {"1", "9", "-", " ", "a"}

DateInputs ==
  {DateNone} \cup {DateInt(n) : n \in {0, 5, 1990, 2024, 12345, 20240115}}
    \cup {DateStr(x) : x \in UNION { [1..n -> DateChars] : n \in 0..MaxDate }}

ExtractYear ==
  /\ fn.op = "extract_year" /\ ~fn.done
  /\ fn' = [fn EXCEPT !.done = TRUE, !.out = extract_year(fn.arg)]
  /\ UNCHANGED << run_vars, http, san, conv, goc, again >>

\* _normalize_album_name's inputs: names put together from a title, blanks,
\* punctuation and edition markers. The callers never pass an empty name
\* (`metadata.album or "Unknown Album"`).
NamePieces ==
  { << "H" >>, << " " >>, << "." >>, << "e", "p" >>,
    << "(", "D", "e", "l", "u", "x", "e", ")" >>,
    << "(", " ", "r", "e", "m", "a", "s", "t", "e", "r", "e", "d", " ", ")" >>,
    << "-", " ", "E", "P" >>,
    << " ", "-", " ", "s", "i", "n", "g", "l", "e", " " >> }

RECURSIVE Flat(_)
Flat(pieces) == IF pieces = << >> THEN << >> ELSE Head(pieces) \o Flat(Tail(pieces))

AlbumNames == {Flat(ps) : ps \in UNION { [1..n -> NamePieces] : n \in 1..MaxPieces }}

NormalizeAlbumName ==
  /\ fn.op = "normalize_album_name" /\ ~fn.done
  /\ fn' = [fn EXCEPT !.done = TRUE, !.out = normalize_album_name(fn.arg)]
  /\ UNCHANGED << run_vars, http, san, conv, goc, again >>

\* _get_best_image's inputs: lists of entries whose size is one of the five,
\* another or missing (""), and whose "#text" is a URL, empty or missing ("").
ImageSizes == {sMega, sExtralarge, sLarge, sMedium, sSmall, << "x" >>, << >>}

ImageEntries == [size : ImageSizes, text : {<< >>, << "j" >>, << "k" >>}]

ImageLists == UNION { [1..n -> ImageEntries] : n \in 0..MaxImages }

GetBestImage ==
  /\ fn.op = "get_best_image" /\ ~fn.done
  /\ fn' = [fn EXCEPT !.done = TRUE, !.out = get_best_image(fn.arg)]
  /\ UNCHANGED << run_vars, http, san, conv, goc, again >>

\* The sort's inputs: tracks with a track number that is missing, 0, small,
\* the sentinel or above it, and a title.
SortInputs ==
  UNION { [1..n -> [track_number : {NoneI, << 0 >>, << 1 >>, << 2 >>, << 999 >>, << 1000 >>},
                    title : {<< "a" >>, << "b" >>}]] : n \in 0..MaxTracks }

\* tracks.sort(key=...) of _build_album.
SortAlbumTracks ==
  /\ fn.op = "sort" /\ ~fn.done
  /\ fn' = [fn EXCEPT !.done = TRUE, !.out = SortTracks(fn.arg)]
  /\ UNCHANGED << run_vars, http, san, conv, goc, again >>

\* _merge_album_info's inputs: the free-text info with fields that are None,
\* empty ("" or the year 0) or set, the fallback info with fields None or set.
PrimaryInfos ==
  { [image_url |-> i, wiki |-> w, release_date |-> r, genre |-> None,
     style |-> y, mood |-> y, theme |-> y, name |-> n] :
      i \in {None, << >>, << "p" >>}, w \in {None, << "p" >>},
      r \in {NoneI, << 0 >>, << 1990 >>}, y \in {None, << "p" >>},
      n \in {None, << >>, << "p" >>} }

FallbackInfos ==
  { [image_url |-> i, wiki |-> w, release_date |-> r, genre |-> g,
     style |-> y, mood |-> y, theme |-> y, name |-> n] :
      i \in {None, << "q" >>}, w \in {None, << "q" >>},
      r \in {NoneI, << 2024 >>}, g \in {None, << "q" >>}, y \in {None, << "q" >>},
      n \in {None, << "q" >>} }

MergeAlbumInfo ==
  /\ fn.op = "merge_album_info" /\ ~fn.done
  /\ fn' = [fn EXCEPT !.done = TRUE,
                      !.out = merge_album_info(fn.arg.primary, fn.arg.fallback)]
  /\ UNCHANGED << run_vars, http, san, conv, goc, again >>

\* The enrichment's inputs: a track whose own genre, style, mood and theme
\* are None, empty or set, the album info with these fields None or set, and
\* the artist's genre.
OwnValues == {None, << >>, << "t" >>}

EnrichInputs ==
  { [track |-> [TrackDict(1, None, None, None)
                  EXCEPT !.genre = g, !.style = y, !.mood = m, !.theme = t],
     album_info |-> [EmptyAlbumInfo
                       EXCEPT !.genre = ag, !.style = ay, !.mood = am, !.theme = at],
     artist_genre |-> r] :
      g \in OwnValues, y \in OwnValues, m \in OwnValues, t \in OwnValues,
      ag \in {None, << "a" >>}, ay \in {None, << "a" >>},
      am \in {None, << "a" >>}, at \in {None, << "a" >>},
      r \in {None, << "r" >>} }

\* The album's genre: its own, else the artist's.
AlbumGenre(album_info, artist_genre) == Or(album_info.genre, artist_genre)

\* The enrichment loop of _build_album, for one track.
EnrichTrack ==
  /\ fn.op = "enrich" /\ ~fn.done
  /\ fn' = [fn EXCEPT !.done = TRUE,
                      !.out = Enrich(fn.arg.track, sHo, sH, sH,
                                     AlbumGenre(fn.arg.album_info, fn.arg.artist_genre),
                                     fn.arg.album_info, None)]
  /\ UNCHANGED << run_vars, http, san, conv, goc, again >>

InitFunctions ==
  /\ RunIdle
  /\ http = HttpIdle
  /\ san = SanIdle
  /\ conv = ConvIdle
  /\ goc = GocIdle
  /\ again = Once
  /\ \/ \E d \in DateInputs : fn = Applying("extract_year", d)
     \/ \E a \in AlbumNames : fn = Applying("normalize_album_name", a)
     \/ \E l \in ImageLists : fn = Applying("get_best_image", l)
     \/ \E ts \in SortInputs : fn = Applying("sort", ts)
     \/ \E p \in PrimaryInfos, q \in FallbackInfos :
          fn = Applying("merge_album_info", [primary |-> p, fallback |-> q])
     \/ \E e \in EnrichInputs : fn = Applying("enrich", e)

NextFunctions ==
  \/ ExtractYear
  \/ NormalizeAlbumName
  \/ GetBestImage
  \/ SortAlbumTracks
  \/ MergeAlbumInfo
  \/ EnrichTrack

SpecFunctions == InitFunctions /\ [][NextFunctions]_vars

\* ------------------------------------------------------------------------
\* processors/audio.py: convert_to_m4a over the runs that share converted_dir
\* ------------------------------------------------------------------------

\* The number of runs of the program over the same directories.
MaxRuns == 2

\* The scanned files that need conversion, by path without suffix and
\* suffix; two of them differ in the suffix only.
SourceFiles ==
  { [stem |-> "a", suffix |-> ".flac"], [stem |-> "a", suffix |-> ".wav"],
    [stem |-> "b", suffix |-> ".flac"] }

\* converted_dir / relative_path.with_suffix(".m4a")
OutputPath(file_path) == [stem |-> file_path.stem, suffix |-> ".m4a"]

OutputPaths == {OutputPath(f) : f \in SourceFiles}

\* A faulty variant of AlreadyConverted: the output is never found.
NeverConverted(dir, output_path) == FALSE

\* output_path.exists(): the directory holds, per path, how many times the
\* file was written (0: no such file).
AlreadyConverted(dir, output_path) == dir[output_path] > 0

\* A call of convert_to_m4a: where it is, what it returned, whether it ran
\* ffmpeg, whether a conversion of its file had produced the output before
\* the call, and the writes of the output at its start and at its return.
NoCall ==
  [pc |-> "ready", ret |-> "None", encoded |-> FALSE, later |-> FALSE,
   at_start |-> 0, at_return |-> 0]

InitConvert ==
  /\ RunIdle
  /\ http = HttpIdle
  /\ san = SanIdle
  /\ fn = FnIdle
  /\ goc = GocIdle
  /\ again = Once
  /\ conv = [run |-> 1, dir |-> [o \in OutputPaths |-> 0],
             call |-> [f \in SourceFiles |-> NoCall], produced |-> {}]

\* convert_to_m4a up to the encoder: the output path, the return of an
\* existing output, the mkdir of the output's directory (which may raise).
ConvertCheck(f) ==
  /\ conv.run > 0 /\ conv.call[f].pc = "ready"
  /\ LET output_path == OutputPath(f)
         c == [conv.call[f] EXCEPT !.later = f \in conv.produced,
                                   !.at_start = conv.dir[output_path],
                                   !.at_return = conv.dir[output_path]]
     IN \/ /\ AlreadyConverted(conv.dir, output_path)
           /\ conv' = [conv EXCEPT !.call[f] =
                         [c EXCEPT !.pc = "returned", !.ret = "path"]]
        \/ /\ ~AlreadyConverted(conv.dir, output_path)
           /\ \E raised \in BOOLEAN :
                conv' = [conv EXCEPT !.call[f] =
                           IF raised THEN [c EXCEPT !.pc = "returned", !.ret = "raise"]
                           ELSE [c EXCEPT !.pc = "encoding"]]
  /\ UNCHANGED << run_vars, http, san, fn, goc, again >>

\* subprocess.run(ffmpeg ... -y output_path): the file is written and the
\* path returned, or ffmpeg fails or times out (None), with or without a
\* partial output left behind.
Encode(f) ==
  /\ conv.run > 0 /\ conv.call[f].pc = "encoding"
  /\ LET output_path == OutputPath(f)
     IN \E ok \in BOOLEAN, written \in BOOLEAN :
          /\ ok => written
          /\ conv' = [conv EXCEPT
                        !.dir[output_path] = IF written THEN @ + 1 ELSE @,
                        !.produced = IF ok THEN @ \cup {f} ELSE @,
                        !.call[f] =
                           [@ EXCEPT !.pc = "returned", !.encoded = TRUE,
                                     !.ret = IF ok THEN "path" ELSE "None",
                                     !.at_return =
                                        conv.dir[output_path] + (IF written THEN 1 ELSE 0)]]
  /\ UNCHANGED << run_vars, http, san, fn, goc, again >>

\* The program ends and is run again on the same music and converted
\* directories.
NewRun ==
  /\ conv.run > 0 /\ conv.run < MaxRuns
  /\ \A f \in SourceFiles : conv.call[f].pc = "returned"
  /\ conv' = [conv EXCEPT !.run = @ + 1, !.call = [f \in SourceFiles |-> NoCall]]
  /\ UNCHANGED << run_vars, http, san, fn, goc, again >>

NextConvert ==
  \/ \E f \in SourceFiles : ConvertCheck(f)
  \/ \E f \in SourceFiles : Encode(f)
  \/ NewRun

SpecConvert == InitConvert /\ [][NextConvert]_vars

\* ------------------------------------------------------------------------
\* utils/cache.py: get_or_compute, called by several threads for one key
\* ------------------------------------------------------------------------

\* The threads that call get_or_compute for the key.
MaxThreads == 3

Threads == 1..MaxThreads

\* The values compute_fn may return; two calls may return different ones.
Computed == {"u", "v"}

\* A call before its first look at the cache.
NoGocCall == [pc |-> "first_check", value |-> Nothing, ret |-> Nothing]

\* The cache holds the key or not; `first` keeps the first value stored
\* under the key and `computes` counts the runs of compute_fn.
InitCache ==
  /\ RunIdle
  /\ http = HttpIdle
  /\ san = SanIdle
  /\ fn = FnIdle
  /\ conv = ConvIdle
  /\ \E entry \in {Nothing} \cup {<< v >> : v \in Computed} :
       goc = [calls |-> MaxThreads, entry |-> entry, first |-> entry,
              call |-> [t \in Threads |-> NoGocCall], computes |-> 0]
  /\ again = Once

\* A faulty variant of StoreIfAbsent: the computed value replaces the entry.
StoreAlways(entry, value) == << value >>

\* `if key not in self._cache: self._cache[key] = value`
StoreIfAbsent(entry, value) == IF entry = Nothing THEN << value >> ELSE entry

\* The first look, under the lock: the entry is returned where there is one.
FirstCheck(t) ==
  /\ goc.calls > 0 /\ goc.call[t].pc = "first_check"
  /\ goc' = [goc EXCEPT !.call[t] =
               IF goc.entry # Nothing
               THEN [@ EXCEPT !.pc = "returned", !.ret = goc.entry]
               ELSE [@ EXCEPT !.pc = "compute"]]
  /\ UNCHANGED << run_vars, http, san, fn, conv, again >>

\* compute_fn(), outside the lock.
Compute(t) ==
  /\ goc.calls > 0 /\ goc.call[t].pc = "compute"
  /\ \E v \in Computed :
       goc' = [goc EXCEPT !.call[t] = [@ EXCEPT !.pc = "store", !.value = << v >>],
                          !.computes = @ + 1]
  /\ UNCHANGED << run_vars, http, san, fn, conv, again >>

\* The second look, under the lock: the value is stored where the key is
\* still absent, and the entry is returned.
Store(t) ==
  /\ goc.calls > 0 /\ goc.call[t].pc = "store"
  /\ LET entry == StoreIfAbsent(goc.entry, goc.call[t].value[1])
     IN goc' = [goc EXCEPT !.entry = entry,
                           !.first = IF @ = Nothing THEN entry ELSE @,
                           !.call[t] = [@ EXCEPT !.pc = "returned", !.ret = entry]]
  /\ UNCHANGED << run_vars, http, san, fn, conv, again >>

NextCache ==
  \/ \E t \in Threads : FirstCheck(t)
  \/ \E t \in Threads : Compute(t)
  \/ \E t \in Threads : Store(t)

SpecCache == InitCache /\ [][NextCache]_vars

\* ------------------------------------------------------------------------
\* Properties
\* ------------------------------------------------------------------------

Distinct(seq) == \A i, j \in 1..Len(seq) : i < j => seq[i] # seq[j]

SeqRange(seq) == {seq[i] : i \in 1..Len(seq)}

\* The Artist nodes and the Album nodes of the catalog build returned.
CatalogArtists == IF catalog = Nothing THEN {} ELSE SeqRange(catalog[1].artists)

CatalogAlbums == UNION {SeqRange(artist.albums) : artist \in CatalogArtists}

\* For every album of the catalog: what it was built from.
BuiltAlbums == IF catalog = Nothing THEN {} ELSE SeqRange(build.log)

KeysOf(ts) == [i \in 1..Len(ts) |-> ts[i].s3_key]

TitlesOf(ts) == [i \in 1..Len(ts) |-> ts[i].title]

\* C1: after build has returned, the storage keys of the tracks of every
\* Album node are pairwise distinct.
C1_KeysDistinctInAlbum ==
  \A album \in CatalogAlbums : Distinct(KeysOf(album.tracks))

\* C1: a catalog with an album two of whose tracks came with one storage
\* key, one of which the album lost.
C1_TrackDropped ==
  \E e \in BuiltAlbums :
    /\ e.album \in CatalogAlbums
    /\ ~Distinct(KeysOf(e.input))
    /\ Len(e.album.tracks) < Len(e.input)

\* C2: no Artist node holds two Album nodes of one name: local album names
\* corrected to one canonical name are merged into one Album node.
C2_OneAlbumPerName ==
  \A artist \in CatalogArtists :
    Distinct([b \in 1..Len(artist.albums) |-> artist.albums[b].name])

\* The file name of a storage key made for a track.
FileNameOf(track) ==
  sanitize_s3_key(track.title, sUnknownTrack) \o << "." >> \o track.format

\* The album lookup of TheAudioDB under the local name gave a name that
\* differs from the local name.
Corrected(e) == Truthy(e.work.tadb.name) /\ e.work.tadb.name # e.local_name

\* C3: an album whose lookup at TheAudioDB gives a name other than the
\* local album name is named by it, so is the album field of its tracks,
\* and their storage keys are sanitize(artist)/sanitize(name)/file name,
\* with no segment of the local album name.
C3_CanonicalNameAndKeys ==
  \A e \in BuiltAlbums :
    Corrected(e) =>
      /\ e.album.name = e.work.tadb.name
      /\ \A t \in SeqRange(e.album.tracks) :
           /\ t.album = e.work.tadb.name
           /\ SplitSlash(t.s3_key) =
                << sanitize_s3_key(e.artist, FallbackUnknown),
                   sanitize_s3_key(e.work.tadb.name, FallbackUnknown),
                   FileNameOf(t) >>

\* C3: a corrected album one of whose tracks came with the local album
\* name in its storage key.
C3_KeyRewritten ==
  \E e \in BuiltAlbums :
    /\ Corrected(e)
    /\ \E t \in SeqRange(e.input) :
         /\ SplitSlash(t.s3_key)[2] = sanitize_s3_key(e.local_name, FallbackUnknown)
         /\ SplitSlash(t.s3_key)[2] # sanitize_s3_key(e.work.tadb.name, FallbackUnknown)

\* The album a track search on the first track's title gives: what the
\* search answered where _build_album made it, and TheAudioDB's data where
\* it did not.
TrackSearchAlbum(e) ==
  IF e.work.searched THEN e.work.track_album
  ELSE LET found == TadbSearchTrack(e.artist, e.input[1].title)
       IN IF found = << >> THEN None ELSE found[1].strAlbum

ReleaseTitle(e) == IF e.work.release = Nothing THEN None ELSE e.work.release[1].title

\* C4: the name of every album is the name of TheAudioDB's album lookup;
\* else the album of the track search; else the release title of
\* MusicBrainz; else the local album name.
C4_StrictPrecedence ==
  \A e \in BuiltAlbums :
    e.album.name =
      IF Truthy(e.work.tadb.name) THEN e.work.tadb.name
      ELSE IF Truthy(TrackSearchAlbum(e)) THEN TrackSearchAlbum(e)
      ELSE IF Truthy(ReleaseTitle(e)) THEN ReleaseTitle(e)
      ELSE e.local_name

\* C5: an album that TheAudioDB does not know and Last.fm knows has the
\* image of Last.fm, keeps the local album name, and its tracks keep the
\* local album segment in their storage keys.
C5_FallbackKeepsLocalName ==
  \A e \in BuiltAlbums :
    (/\ e.work.tadb = EmptyAlbumInfo
     /\ TadbSearchAlbum(e.artist, e.local_name) = << >>
     /\ TadbSearchTrack(e.artist, e.input[1].title) = << >>
     /\ e.work.lfm_used /\ Truthy(e.work.lfm.name))
    => /\ e.album.name = e.local_name
       /\ Truthy(e.work.lfm.image_url) => e.album.image_url = e.work.lfm.image_url
       /\ \A t \in SeqRange(e.album.tracks) :
            SplitSlash(t.s3_key)[2] = sanitize_s3_key(e.local_name, FallbackUnknown)

\* C6: after build has returned, the titles of the tracks of every Album
\* node are pairwise distinct.
C6_TitlesDistinctInAlbum ==
  \A album \in CatalogAlbums : Distinct(TitlesOf(album.tracks))

\* C7: total_tracks of the catalog is the number of tracks build was given.
C7_TotalIsInputCount ==
  catalog # Nothing =>
    /\ build.input = tracks
    /\ catalog[1].total_tracks = Len(tracks)

\* C7: a catalog whose albums hold fewer tracks than build was given.
C7_TotalAboveKept ==
  /\ catalog # Nothing
  /\ CountTracks(catalog[1].artists) < Len(tracks)

\* An image of the album came from a provider.
ProviderImage(e) ==
  \/ Truthy(e.work.tadb.image_url)
  \/ Truthy(e.work.lfm.image_url)
  \/ Truthy(e.work.info.image_url)

C9_BuildNeverAborts == pc # "aborted"

\* The files whose task returned a track.
Succeeded == {f \in files : task[f] = "collected" /\ ~local[f].raised
                              /\ local[f].result # Nothing}

\* The files whose task failed.
Failed == {f \in files : task[f] = "collected"
                           /\ (local[f].raised \/ local[f].result = Nothing)}

\* C10: the results collected are exactly the tracks of the tasks that
\* succeeded, build starts once every task is collected, whether or not
\* tasks failed, and it is given those tracks.
C10_FailedTasksExcluded ==
  /\ SeqRange(tracks) = {local[f].result[1] : f \in Succeeded}
  /\ Len(tracks) = Cardinality(Succeeded)
  /\ pc # "processing" =>
       /\ Succeeded \cup Failed = files
       /\ build.input = tracks

\* C10: build returned a catalog after a task failed and a task succeeded.
C10_RunSurvivesFailure ==
  /\ pc = "done"
  /\ Failed # {}
  /\ Succeeded # {}
  /\ catalog[1].total_tracks = Cardinality(Succeeded)

\* C11: the Catalog Builder starts only after every per-file task has
\* completed and been collected: whenever run has left the processing of the
\* files, or build holds anything (its input, a group, a lookup's answer), no
\* task is still ready, looking up, uploading or waiting to be collected.
C11_BuildAfterJoin ==
  (pc # "processing" \/ build # InitBuild) => \A f \in files : task[f] = "collected"

\* The builder has answered a lookup for a scan of two files.
C11_BuilderAtWork ==
  /\ pc = "build" /\ Cardinality(files) = 2 /\ build.log # << >>
  /\ \A f \in files : task[f] = "collected"

\* The key of the album cache for a file.
AlbumKey(f) == << AlbumArtistName(AudioFiles[f]), AlbumName(AudioFiles[f]) >>

\* The tasks whose album lookup missed the cache and has completed (its
\* result is set in the cache).
LookedUp ==
  {f \in files : local[f].miss /\ task[f] \in {"artwork", "returned", "collected"}}

\* C15: once a lookup of a query tuple has completed, every later lookup of
\* the tuple returns the same result from the cache: the album cache holds,
\* for every completed album lookup, the very result that lookup returned (a
\* not-found result included), so a later fetch_album_info of that tuple
\* returns it without a request.
C15_CompletedLookupStaysCached ==
  \A f \in LookedUp :
    /\ CacheHas(svc.tadb.album_cache, AlbumKey(f))
    /\ svc.tadb.album_cache[AlbumKey(f)] = local[f].album_info

\* Every album lookup of the run so far that went to the provider: those of
\* the tasks, and the builder's first fetch and re-fetch of every album.
AllLookups ==
  {L \in {local[f].lookup : f \in files}
          \cup {build.log[i].work.lookup : i \in 1..Len(build.log)}
          \cup {build.log[i].work.relookup : i \in 1..Len(build.log)} : L.done}

SourceIndex(source) == CHOOSE i \in 1..Len(Sources) : Sources[i] = source

\* The lookup's inputs allow the source: MusicBrainz gave a release ID, the
\* edition-normalized name differs from the name, an artist ID is cached.
Eligible(L, source) ==
  CASE source = "mbid" -> L.mbid
    [] source = "normalized" -> L.normalized
    [] source = "name" -> TRUE
    [] source = "artist_id" -> L.artist_id

\* C16: fetch_album_info consults (a) the MBID lookup, (b) the
\* edition-normalized name search, (c) the raw name search, (d) the cached
\* artist's album list, in that order; no request leaves after a source has
\* yielded an album, and when none yields every eligible source was asked.
C16_FirstSourceWins ==
  \A L \in AllLookups :
    /\ \A i, j \in 1..Len(L.asked) :
         i < j => SourceIndex(L.asked[i]) < SourceIndex(L.asked[j])
    /\ \A i \in 1..Len(L.asked) : Eligible(L, L.asked[i])
    /\ ~L.late
    /\ L.found => L.asked # << >>
    /\ \A i \in 1..Len(Sources) :
         (/\ Eligible(L, Sources[i])
          /\ ~L.exc
          /\ (L.found => i < SourceIndex(L.asked[Len(L.asked)])))
         => \E k \in 1..Len(L.asked) : L.asked[k] = Sources[i]

\* A lookup answered by the MBID source alone although the name carried an
\* edition marker: the normalized and the raw name search were not asked.
C16_MbidWon ==
  \E L \in AllLookups : L.found /\ L.asked = << "mbid" >> /\ L.normalized

\* C17: a worker that looks a pair up in the artwork cache while another
\* worker has it marked and unresolved observes the mark and skips the
\* extraction and the upload.
C17_PlaceholderSkipsWork ==
  \A f \in files : local[f].in_flight_seen => task[f] # "artwork"

C12_GateKeepsInterval ==
  LET p == http.last_pass
      T == MinInterval(http.client)
  IN p.count > 0 =>
       /\ p.gap >= T
       /\ http.last_request_time - p.first_at >= (p.count - 1) * T

\* A second caller was held back in the gate and passed exactly one interval
\* after the pass before it.
C12_HeldBack ==
  /\ http.last_pass.slept /\ http.last_pass.count = 2
  /\ http.last_pass.gap = MinInterval(http.client)
  /\ \E t \in Callers : t # http.last_pass.caller /\ http.caller[t].outcomes = << >>
                          /\ http.caller[t].pc = "send"

\* The callers whose call has returned.
Returned == {t \in Callers : http.caller[t].pc = "idle" /\ http.caller[t].outcomes # << >>}

\* C13: a request whose every attempt fails with a transient network error
\* is retried three times, after backoff waits of 1 s, 2 s and 4 s in that
\* order, and then returns no result.
C13_ThreeBackoffsThenNone ==
  \A t \in Returned :
    LET c == http.caller[t]
    IN (\A i \in 1..Len(c.outcomes) : c.outcomes[i] = "RequestException")
       => /\ c.sleeps = << Seconds(1), Seconds(2), Seconds(4) >>
          /\ c.ret = "None"

\* The caller gets no result: None, or a body without the members the
\* lookups read.
NoResult(ret) == ret \in {"None", "error_body"}

\* C14: when the provider answers with an error body, the call ends at that
\* attempt as no-result: no further attempt and no backoff sleep follow the
\* response (the sleeps are those of the failed attempts before it).
C14_ErrorBodyEndsCall ==
  \A t \in Callers :
    LET c == http.caller[t]
    IN (c.outcomes # << >> /\ c.outcomes[Len(c.outcomes)] = "error")
       => /\ c.pc = "idle"
          /\ NoResult(c.ret)
          /\ Len(c.sleeps) = Len(c.outcomes) - 1
          /\ c.attempt = Len(c.outcomes) - 1

\* An error body answered the retry of a failed attempt and ended the call.
C14_ErrorAfterRetry ==
  \E t \in Callers :
    /\ http.caller[t].outcomes = << "RequestException", "error" >>
    /\ http.caller[t].pc = "idle"
    /\ http.caller[t].ret = "None"

\* C19: sanitize_s3_key is idempotent: for every name, with the caller's
\* fallback in use, sanitizing the result again gives the result.
C19_Idempotent == san.step = "twice" => san.twice = san.once

\* Only A-Z, a-z, 0-9 and the dash, no dash first or last, no two dashes in
\* a row.
CleanKey(key) ==
  /\ \A i \in 1..Len(key) : key[i] \in Upper \cup Lower \cup Digits \cup {"-"}
  /\ key # << >> => key[1] # "-" /\ key[Len(key)] # "-"
  /\ \A i \in 1..(Len(key) - 1) : ~(key[i] = "-" /\ key[i + 1] = "-")

\* C20: every value sanitize_s3_key returns, for every name and every
\* fallback of the callers, consists of A-Z, a-z, 0-9 and dashes only, with
\* no leading, trailing or repeated dash.
C20_ResultIsClean == san.step \in {"once", "twice"} => CleanKey(san.once)

\* The leading four digits of an integer, None for one of fewer digits.
RECURSIVE LeadingFour(_)
LeadingFour(n) ==
  IF n \in 1000..9999 THEN << n >>
  ELSE IF n > 9999 THEN LeadingFour(n \div 10)
  ELSE NoneI

StartsWithYear(x) == Len(x) >= 4 /\ \A k \in 1..4 : x[k] \in Digits

\* The decimal digits of y are the first four characters of x.
IsYearOf(y, x) ==
  /\ y \in 0..9999
  /\ \A k \in 1..4 : DigitVal(x[k]) = (y \div (10 ^ (4 - k))) % 10

\* C21 as stated: extract_year returns the leading 4-digit year as an integer
\* for every integer and for every string that starts with 4 digits, and
\* None for None and for every other string.
C21_LeadingYearOrNone ==
  Applied("extract_year") =>
    LET d == fn.arg
    IN IF d.t = "int" THEN fn.out # NoneI /\ fn.out = LeadingFour(d.i)
       ELSE IF d.t = "str" /\ StartsWithYear(d.s)
       THEN fn.out # NoneI /\ IsYearOf(fn.out[1], d.s)
       ELSE fn.out = NoneI

\* C21 as amended: extract_year returns an integer unchanged; for a string
\* that starts with 4 digits once its surrounding whitespace is stripped it
\* returns those digits as an integer; for None and every other string None.
C21_YearAfterStrip ==
  Applied("extract_year") =>
    LET d == fn.arg
    IN IF d.t = "int" THEN fn.out = << d.i >>
       ELSE IF d.t = "str" /\ StartsWithYear(Strip(d.s))
       THEN fn.out # NoneI /\ IsYearOf(fn.out[1], Strip(d.s))
       ELSE fn.out = NoneI

\* A string with leading whitespace gave a year.
C21_PaddedYear ==
  /\ Applied("extract_year") /\ fn.arg.t = "str"
  /\ fn.arg.s # << >> /\ fn.arg.s[1] = " "
  /\ fn.out = << 1999 >>

\* C22: _normalize_album_name never returns an empty name (for the non-empty
\* names it is called with), and whenever stripping the edition markers
\* leaves nothing it returns its input unchanged.
C22_NeverEmpty ==
  Applied("normalize_album_name") =>
    /\ fn.out # << >>
    /\ Strip(ReSubAll(EditionPatterns, fn.arg)) = << >> => fn.out = fn.arg

\* A name made of edition markers only was returned unchanged.
C22_OnlyMarkers ==
  /\ Applied("normalize_album_name")
  /\ \E i \in 1..Len(fn.arg) : fn.arg[i] = "("
  /\ Strip(ReSubAll(EditionPatterns, fn.arg)) = << >>
  /\ fn.out = fn.arg

\* Some entry of the list has the size and a non-empty URL.
HasUrl(images, size) ==
  \E k \in 1..Len(images) : images[k].size = size /\ Truthy(images[k].text)

\* C25: _get_best_image returns a URL of the first size, in the order mega,
\* extralarge, large, medium, small, that is listed with a non-empty URL,
\* and None when no such size is listed.
C25_BestOfPresent ==
  Applied("get_best_image") =>
    LET order == << sMega, sExtralarge, sLarge, sMedium, sSmall >>
        avail == {i \in 1..Len(order) : HasUrl(fn.arg, order[i])}
    IN IF avail = {} THEN fn.out = None
       ELSE LET best == CHOOSE i \in avail : \A j \in avail : i <= j
            IN \E k \in 1..Len(fn.arg) :
                 /\ fn.arg[k].size = order[best]
                 /\ Truthy(fn.arg[k].text)
                 /\ fn.out = fn.arg[k].text

\* A mega entry with an empty URL was skipped for a smaller size listed
\* before it.
C25_EmptyMegaSkipped ==
  /\ Applied("get_best_image") /\ Len(fn.arg) = 3
  /\ fn.arg[1].size = sSmall /\ fn.arg[1].text = << "j" >>
  /\ fn.arg[2].size = sMega /\ fn.arg[2].text = << >>
  /\ fn.arg[3].size = sLarge /\ fn.arg[3].text = << "k" >>
  /\ fn.out = << "k" >>

\* The order of the claim: by track number, then by title; a track without
\* a number never before a track with one.
InAlbumOrder(a, b) ==
  IF a.track_number # NoneI /\ b.track_number # NoneI
  THEN \/ a.track_number[1] < b.track_number[1]
       \/ a.track_number[1] = b.track_number[1] /\ ~StrLess(b.title, a.title)
  ELSE IF a.track_number = NoneI /\ b.track_number = NoneI
  THEN ~StrLess(b.title, a.title)
  ELSE a.track_number # NoneI

\* C27: the tracks of an album are ordered by track number and then by
\* title, and every track without a track number comes after all tracks
\* that have one, whatever the track numbers.
C27_MissingNumbersLast ==
  Applied("sort") =>
    \A i, j \in 1..Len(fn.out) : i < j => InAlbumOrder(fn.out[i], fn.out[j])

\* C28: in the merged album info every field that is non-empty in the
\* free-text info (a non-empty string, a year other than 0) has the free-text
\* value, and every other field has the fallback's value.
C28_PrimaryKept ==
  Applied("merge_album_info") =>
    LET primary == fn.arg.primary
        fallback == fn.arg.fallback
    IN /\ \A f \in {"image_url", "wiki", "genre", "style", "mood", "theme", "name"} :
            /\ Truthy(primary[f]) => fn.out[f] = primary[f]
            /\ ~Truthy(primary[f]) => fn.out[f] = fallback[f]
       /\ (primary.release_date # NoneI /\ primary.release_date # << 0 >>)
            => fn.out.release_date = primary.release_date
       /\ (primary.release_date = NoneI \/ primary.release_date = << 0 >>)
            => fn.out.release_date = fallback.release_date

\* Both infos had a wiki and only the fallback an image: the wiki is the
\* free-text one, the image the fallback's.
C28_GapFilled ==
  /\ Applied("merge_album_info")
  /\ fn.arg.primary.wiki = << "p" >> /\ fn.arg.fallback.wiki = << "q" >>
  /\ fn.arg.primary.image_url = None /\ fn.arg.fallback.image_url = << "q" >>
  /\ fn.out.wiki = << "p" >> /\ fn.out.image_url = << "q" >>

\* C24: once a conversion of a file has produced its output, every later
\* call of convert_to_m4a for the file returns the output path, does not run
\* the encoder and leaves the converted file as it found it.
C24_ConvertedOnce ==
  conv.run > 0 =>
    \A f \in SourceFiles :
      LET c == conv.call[f]
      IN (c.pc # "ready" /\ c.later)
         => /\ c.pc = "returned" /\ c.ret = "path"
            /\ ~c.encoded
            /\ c.at_return = c.at_start
            /\ conv.dir[OutputPath(f)] = c.at_start

\* In a second run a file converted in the first was returned without the
\* encoder, while another file was encoded anew after a failure.
C24_SkippedInSecondRun ==
  /\ conv.run = 2
  /\ \E f, g \in SourceFiles :
       /\ conv.call[f].pc = "returned" /\ conv.call[f].later /\ ~conv.call[f].encoded
       /\ conv.call[g].pc = "returned" /\ conv.call[g].encoded /\ conv.call[g].ret = "path"

\* C23: every track of the catalog is in the Artist node named by the
\* primary artist of its credit (the part of the album artist, else of the
\* artist, before the first "/"), and the artist segment of its storage key
\* is the sanitized primary artist.
C23_GroupedUnderPrimary ==
  \A artist \in CatalogArtists :
    \A album \in SeqRange(artist.albums) :
      \A t \in SeqRange(album.tracks) :
        LET primary == normalize_artist_name(GroupArtist(t))
        IN /\ artist.name = primary
           /\ Truthy(t.s3_key) =>
                SplitSlash(t.s3_key)[1] = sanitize_s3_key(primary, FallbackUnknown)

\* The names of the nodes are in ascending order (equal names may follow
\* one another).
Ascending(nodes) ==
  \A i, j \in 1..Len(nodes) : i < j => ~StrLess(nodes[j].name, nodes[i].name)

\* C26: in the catalog build returned the Artist nodes are in ascending
\* order of their names, and the Album nodes of every Artist node are in
\* ascending order of their final names.
C26_NodesSortedByName ==
  catalog # Nothing =>
    /\ Ascending(catalog[1].artists)
    /\ \A artist \in CatalogArtists : Ascending(artist.albums)

\* The images the providers gave for the album: TheAudioDB under the local
\* name, Last.fm, and TheAudioDB under the name the track search gave.
ProviderImages(e) ==
  {u \in {e.work.tadb.image_url, e.work.lfm.image_url, e.work.info.image_url} :
     Truthy(u)}

\* The embedded artwork of the tracks the album was built from.
EmbeddedImages(e) ==
  {e.input[i].embedded_artwork_url : i \in 1..Len(e.input)} \ {None}

\* C29: the image of an album is an embedded artwork only where no provider
\* gave an image of the album; where a provider gave one, the image of the
\* album is a provider's.
C29_EmbeddedOnlyWithoutProvider ==
  \A e \in BuiltAlbums :
    e.album \in CatalogAlbums =>
      /\ e.album.image_url \in EmbeddedImages(e) => ProviderImages(e) = {}
      /\ ProviderImages(e) # {} => e.album.image_url \in ProviderImages(e)

\* C30: an artist the search gave is taken only where its name loosely
\* matches the name asked for: every cached artist ID is that of an artist
\* whose name matches the key it is cached under, and the artist info of a
\* name is filled only from an artist whose name matches it.
C30_MismatchRejected ==
  /\ \A name \in DOMAIN svc.tadb.artist_id_cache :
       names_match(name, svc.tadb.artist_id_cache[name][1])
  /\ \A name \in DOMAIN svc.tadb.artist_cache :
       svc.tadb.artist_cache[name] # EmptyArtistInfo =>
         \E a \in SeqRange(TadbArtists) : names_match(name, a.strArtist)

\* C31: build gives a track the album's genre, style, mood and theme where
\* the track's own field is empty (None or ""), and leaves every non-empty
\* field of the track as it was.
C31_EnrichmentFillsGaps ==
  Applied("enrich") =>
    LET own == fn.arg.track
        info == fn.arg.album_info
        album_genre == IF Truthy(info.genre) THEN info.genre ELSE fn.arg.artist_genre
    IN /\ fn.out.genre = IF Truthy(own.genre) THEN own.genre ELSE album_genre
       /\ fn.out.style = IF Truthy(own.style) THEN own.style ELSE info.style
       /\ fn.out.mood = IF Truthy(own.mood) THEN own.mood ELSE info.mood
       /\ fn.out.theme = IF Truthy(own.theme) THEN own.theme ELSE info.theme

\* A track with a genre of its own and no style, in an album with a genre
\* and a style: the genre is kept, the style is the album's.
C31_GenreKeptStyleFilled ==
  /\ Applied("enrich")
  /\ fn.arg.track.genre = << "t" >> /\ fn.arg.album_info.genre = << "a" >>
  /\ fn.arg.track.style = None /\ fn.arg.album_info.style = << "a" >>
  /\ fn.out.genre = << "t" >> /\ fn.out.style = << "a" >>

\* The albums TheAudioDB lists under the ID the artist lookup cached for the
\* album's artist, with the album's local name in any case.
ListedUnderArtistId(e) ==
  IF CacheHas(svc.tadb.artist_id_cache, e.artist)
  THEN SelectSeq(TadbAlbumsOfArtist(svc.tadb.artist_id_cache[e.artist][2]),
                 LAMBDA a : StrLower(a.strAlbum) = StrLower(e.local_name))
  ELSE << >>

\* Neither the release ID of MusicBrainz nor the searches by name, under the
\* artist's local or canonical name, find the album.
NotFoundByName(e) ==
  /\ \A r \in SeqRange(MbSearchRelease(e.artist, e.local_name)) :
       TadbAlbumByMbid(r.id) = << >>
  /\ \A artist \in {e.artist, svc.tadb.artist_id_cache[e.artist][1]} :
       \A album \in {e.local_name, normalize_album_name(e.local_name)} :
         TadbSearchAlbum(artist, album) = << >>

\* C32: in a dry run and in a full run, with every request answered, an
\* album that the release ID and the searches by name cannot find and that
\* the listing of the cached artist ID holds is built from the listed album.
C32_IdFallbackReachesBuilder ==
  \A e \in BuiltAlbums :
    (/\ svc.faults = 0
     /\ ListedUnderArtistId(e) # << >>
     /\ NotFoundByName(e))
    => e.work.tadb.name = ListedUnderArtistId(e)[1].strAlbum

\* C33: with no set or clear on the key, every call of get_or_compute that
\* has returned gave the first value stored under the key, so all calls
\* return one value, however often compute_fn ran.
C33_AllReturnFirstStored ==
  goc.calls > 0 =>
    \A t \in Threads :
      goc.call[t].pc = "returned" =>
        /\ goc.first # Nothing
        /\ goc.call[t].ret = goc.first
        /\ goc.entry = goc.first

\* compute_fn ran twice with different values, and the call whose value was
\* not stored returned the other call's value.
C33_LoserReturnsWinner ==
  /\ goc.calls > 0 /\ goc.computes >= 2
  /\ \E t \in Threads :
       /\ goc.call[t].pc = "returned"
       /\ goc.call[t].value # Nothing
       /\ goc.call[t].value # goc.call[t].ret

\* The key process_file gave the track: the key of the track of the same
\* file among the tracks the album was built from.
ProvisionalKey(e, t) ==
  LET m == SelectSeq(e.input, LAMBDA u : u.file = t.file) IN m[1].s3_key

\* C34: a key that build rewrote differs from the key process_file gave in
\* its album segment only: the artist segment and the file name are the same.
C34_OnlyAlbumSegmentRewritten ==
  \A e \in BuiltAlbums :
    e.album \in CatalogAlbums =>
      \A t \in SeqRange(e.album.tracks) :
        t.s3_key # ProvisionalKey(e, t) =>
          LET old == SplitSlash(ProvisionalKey(e, t))
              new == SplitSlash(t.s3_key)
          IN /\ Len(new) = Len(old)
             /\ new[1] = old[1]
             /\ new[Len(new)] = old[Len(old)]

\* C37: where storage holds a catalog when upload_catalog is called, it holds
\* a catalog when upload_catalog has returned, whether the upload succeeded
\* or failed.
C37_CatalogNeverLost ==
  [][(/\ pc = "built" /\ pc' = "done" /\ ~dry_run
      /\ sCatalogKey \in svc.storage.bucket)
     => sCatalogKey \in svc'.storage.bucket]_vars

\* C35: in a run that is not a dry run, the storage key of every track of
\* the catalog names an object in storage, and the track's URL is the key's.
C35_KeysNameStoredObjects ==
  (catalog # Nothing /\ ~dry_run) =>
    \A album \in CatalogAlbums :
      \A t \in SeqRange(album.tracks) :
        /\ t.s3_key \in svc.storage.bucket
        /\ t.url = get_public_url(t.s3_key)

\* C36: two runs over the same files with the same answers of the providers
\* return the same catalog, whatever order their worker tasks completed in.
C36_OrderIndependent ==
  (again.run = 2 /\ catalog # Nothing) => catalog = again.catalog

\* The tracks that build groups with the track t, in the order of the sort.
SortedGroup(t) ==
  SortTracks(SelectSeq(tracks, LAMBDA u : /\ GroupArtist(u) = GroupArtist(t)
                                          /\ GroupAlbum(u) = GroupAlbum(t)))

\* The positions (artist, album, track) of the catalog that hold the track t.
Places(t) ==
  {p \in UNION {UNION {{<< a, b, i >> :
                          i \in 1..Len(catalog[1].artists[a].albums[b].tracks)} :
                        b \in 1..Len(catalog[1].artists[a].albums)} :
                 a \in 1..Len(catalog[1].artists)} :
     catalog[1].artists[p[1]].albums[p[2]].tracks[p[3]].file = t.file}

\* The positions (artist, album) of the group of the track t.
GroupPlaces(t) ==
  LET groups == GroupTracks(tracks)
  IN {p \in UNION {{<< a, b >> : b \in 1..Len(groups[a].albums)} :
                     a \in 1..Len(groups)} :
        /\ groups[p[1]].name = GroupArtist(t)
        /\ groups[p[1]].albums[p[2]].name = GroupAlbum(t)}

\* An earlier track of t's group came to build with t's storage key.
EarlierWithKey(t) ==
  LET g == SortedGroup(t)
  IN /\ Truthy(t.s3_key)
     /\ \E j \in 1..Len(g) :
          /\ g[j].file = t.file
          /\ \E i \in 1..(j - 1) : g[i].s3_key = t.s3_key

====
